---- MODULE Spec2Model ----
(***************************************************************************)
(* uni-api: the credential pool (utils.py, ThreadSafeCircularList), the    *)
(* heartbeat multiplexer (response.py, fetch_response_stream) and the      *)
(* first-chunk wrapper (utils.py, error_handling_wrapper).                 *)
(*                                                                         *)
(* The pool runs on one asyncio event loop: a coroutine runs until it      *)
(* suspends, and no pool method suspends while the lock is free, so one    *)
(* call runs to completion before another task runs.  Each call is split   *)
(* into the steps of its code (acquire, loop iteration, release) so that   *)
(* the lock and the locals are visible between the steps.  The clock is    *)
(* read in whole ticks and advances between calls only: a call does not    *)
(* suspend, so every time() it reads is the same tick.                     *)
(*                                                                         *)
(* The multiplexer and the wrapper are async generators: a step runs from  *)
(* one suspension (an await, a yield) to the next.  Spec follows the pool, *)
(* SpecMux one stream of the multiplexer in every interleaving, SpecBeat   *)
(* the same stream against the clock, SpecWrap one wrapped stream.         *)
(***************************************************************************)
EXTENDS Integers, Sequences, FiniteSets, TLC

\* ------------------------------------------------------------------ bounds
MaxItems == 2
MaxTime == 1
MaxCalls == 2
MaxEvents == 2
MaxBeats == 2
MaxClock == 5
MaxStream == 3
MaxWait == 2
MaxTokens == 1
MaxLines == 3

\* ------------------------------------------------------- program constants
DefaultLimitCount == 999999
DefaultLimitPeriod == 60

\* ------------------------------------------------------------------ values
NoTask == 0
Tasks == {1, 2}
NoCred == 0
\* utils.py 173: HTTPException(status_code=429), told from a credential by its number
RateLimited == 429
\* utils.py 164: the IndexError of self.items[self.index], no credential and no status
IndexError == NoCred - 1
\* the call has returned nothing yet: None
NoResult == NoCred

\* A model name is a sequence of characters; None (and "") is the empty one.
NoModel == << >>
DefaultKey == <<"default">>
ModelA == <<"a">>
ModelAB == <<"a", "b">>
Models == {NoModel, ModelA, ModelAB}
ModelKeys == {DefaultKey, ModelA, ModelAB}

CoolingTimes == {1, 2}

\* Rate-limit tables as parse_rate_limit leaves them: an insertion-ordered
\* list of (pattern, list of (count, period)).
TableS4 == << [key |-> DefaultKey, limits |-> << <<1, 60>> >>] >>
TableSub ==
    << [key |-> ModelA, limits |-> << <<1, 2>> >>],
       [key |-> DefaultKey, limits |-> << <<2, 3>>, <<1, 1>> >>] >>
\* utils.py 69: the table of a pool made with no argument, default = 999999/min
TableDefault == << [key |-> DefaultKey, limits |-> << <<DefaultLimitCount, DefaultLimitPeriod>> >>] >>
TableNoDefault ==
    << [key |-> ModelA, limits |-> << <<2, 2>> >>],
       [key |-> ModelAB, limits |-> << <<1, 1>> >>] >>

\* A deployment: the pool's rate-limit table and the model names its callers use.
Scenarios ==
    { [table |-> TableS4, callers |-> {ModelA, ModelAB}],
      [table |-> TableSub, callers |-> {NoModel, ModelAB}],
      [table |-> TableNoDefault, callers |-> {NoModel, ModelAB}] }

Algorithms == {"round_robin", "fixed_priority", "random"}

\* ---------------------------------------------------------------- variables
VARIABLES
    items,               \* self.items
    schedule_algorithm,  \* self.schedule_algorithm
    rate_limits,         \* self.rate_limits
    callers,             \* the model names the callers of this pool ask for
    index,               \* self.index (0-based, as in the code)
    lock,                \* self.lock: the task holding it, or NoTask
    requests,            \* self.requests[item][model_key]
    cooling_until,       \* self.cooling_until[item]
    now,                 \* time()
    calls,               \* number of calls made so far
    running,             \* the task whose call is executing, or NoTask
    pc,                  \* position of the executing call
    model,               \* argument model of next / is_rate_limited
    item,                \* argument item of set_cooling / is_rate_limited, local item of next
    cooling_time,        \* argument cooling_time of set_cooling
    set_now,             \* local now of set_cooling
    start_index,         \* local start_index of next
    result,              \* value returned (or exception raised) by the call
    pre_requests,        \* history: requests when the executing call started
    clean,               \* history: no credential was limited when the call started
    streak,              \* history: credentials returned by consecutive clean successful next calls
    cool_deadline,       \* history: per credential, completion time + seconds of the last set_cooling
    last_next,           \* history: per task, the credential its latest next returned (NoCred: none, or it raised)
    adapter,             \* the events response_gen yields, in order
    produced,            \* how many of them __anext__ has handed out
    response_task,       \* response_task: "None", "pending", "done" or "cancelled"
    response_result,     \* the value (or exception) response_task completed with
    heartbeat_task,      \* heartbeat_task: "None", "pending", "done" or "cancelled"
    queue,               \* number of heartbeat lines waiting in heartbeat_queue
    beats,               \* number of heartbeat lines send_heartbeat has put so far
    done_order,          \* the tasks of `done` the for loop has still to visit, in its order
    output,              \* the items fetch_response_stream has yielded
    mpc,                 \* position of fetch_response_stream
    exit_kind,           \* how fetch_response_stream is leaving: "return", "raise", "close", "cancel"
    engine,              \* argument engine of fetch_response_stream
    upstream,            \* what the upstream of this stream sends
    producer,            \* the send_heartbeat task of heartbeat_generator
    aclose_calls,        \* number of response_gen.aclose() calls made
    clock,               \* seconds since fetch_response_stream was called
    generator,           \* argument generator of error_handling_wrapper: the items it will give
    generator_end,       \* how that stream ends after its items: "stop" or "error"
    wrap_args,           \* arguments engine and stream of error_handling_wrapper
    consumed,            \* how many items the wrapper has pulled from generator
    first_real_response, \* local first_real_response of new_generator (0: None)
    wpc,                 \* position of error_handling_wrapper and of the generator it returns
    yielded,             \* the items the returned generator has yielded
    inspected,           \* history: the items check_response_content was called on
    raised,              \* the exception raised to the caller or the consumer
    cancelled,           \* history: the consumer's task was cancelled
    is_audio,            \* local is_audio: << >> until check_response_content returns
    returned,            \* what error_handling_wrapper returned beside the time
    wall,                \* time_module.time(), in seconds
    start_time,          \* local start_time of error_handling_wrapper
    first_response_time, \* local first_response_time: << >> until it is taken
    first_real_time,     \* history: when the first item that is no heartbeat line arrived
    random_state,        \* the state of the generator of module random, shared by all requests
    emit_args,           \* the arguments of a call of generate_sse_response
    sse_response,        \* what the call returned: << >> before it returns
    request_engine,      \* argument engine of fetch_response_stream or fetch_response
    called,              \* which of the two the request calls
    request_time,        \* what datetime.now() gives while the request runs, in seconds
    response,            \* the upstream's answer: its status_code and the lines of its body
    response_gen,        \* response_gen: the adapter created, None before
    posts,               \* number of requests the adapter has sent upstream
    request_timestamp,   \* local timestamp of the adapter, None before it is taken
    random_str,          \* local random_str of fetch_gpt_response_stream, Null before
    line_no,             \* number of lines the adapter has taken from the body
    buffer,              \* local buffer of the adapter: the text read and not yet split off
    unsent,              \* the text of the body the upstream has still to send
    taken,               \* history: the lines the adapter has split off, in order
    joined,              \* history: a chunk has been appended to a part of a line
    adapter_locals,      \* the locals of the adapter that outlive a line
    adapter_out,         \* the items the adapter has yielded
    apc,                 \* position of the adapter
    adapter_raised       \* the exception the call ended with, None if none

config == << items, schedule_algorithm, rate_limits, callers >>
locals == << model, item, cooling_time, set_now, start_index, result >>
poolVars ==
    << config, index, lock, requests, cooling_until, now, calls, running, pc, locals,
       pre_requests, clean, streak, cool_deadline, last_next >>

muxVars ==
    << adapter, produced, response_task, response_result, heartbeat_task, queue, beats,
       done_order, output, mpc, exit_kind, engine, upstream, producer, aclose_calls, clock >>

wrapCall == << is_audio, returned, start_time, first_response_time, first_real_time >>
wrapVars ==
    << generator, generator_end, wrap_args, consumed, first_real_response, wpc, yielded,
       inspected, raised, cancelled, wrapCall, wall >>

emitVars == << random_state, emit_args, sse_response >>

frame == << buffer, unsent, taken, joined >>
adaptVars ==
    << request_engine, called, request_time, response, response_gen, posts,
       request_timestamp, random_str, line_no, frame, adapter_locals, adapter_out, apc,
       adapter_raised >>

vars == << poolVars, muxVars, wrapVars, emitVars, adaptVars >>

\* ----------------------------------------------------------------- helpers
N == Len(items)
Creds == 1..MaxItems

\* utils.py 72: random.sample(items, len(items)) gives some permutation of the
\* credentials; the reversed list stands for a shuffled pool
Reversed(n) == [i \in 1..n |-> n + 1 - i]

\* limit_model in model  (Python substring test on str)
IsSubstring(p, m) ==
    \E i \in 0..(Len(m) - Len(p)) : SubSeq(m, i + 1, i + Len(p)) = p

HasKey(k) == \E i \in DOMAIN rate_limits : rate_limits[i].key = k
Lookup(k) == rate_limits[CHOOSE i \in DOMAIN rate_limits : rate_limits[i].key = k].limits
MinOf(S) == CHOOSE x \in S : \A y \in S : x <= y
MaxOf(S) == CHOOSE x \in S : \A y \in S : x >= y

\* utils.py 122-125
ModelKey_OneLog(m) == DefaultKey
ModelKey(m) == IF m # NoModel THEN m ELSE DefaultKey

\* utils.py 127-140: exact match, else first substring match in table order,
\* else "default", else [(999999, 60)]
FuzzyMatches(m) ==
    { i \in DOMAIN rate_limits :
        /\ rate_limits[i].key # DefaultKey
        /\ m # NoModel
        /\ IsSubstring(rate_limits[i].key, m) }
ResolveRateLimit_SubstringFirst(m) ==
    IF FuzzyMatches(m) # {} THEN rate_limits[MinOf(FuzzyMatches(m))].limits
    ELSE IF m # NoModel /\ HasKey(m) THEN Lookup(m)
    ELSE IF HasKey(DefaultKey) THEN Lookup(DefaultKey)
    ELSE << <<DefaultLimitCount, DefaultLimitPeriod>> >>
ResolveRateLimit(m) ==
    IF m # NoModel /\ HasKey(m) THEN Lookup(m)
    ELSE IF FuzzyMatches(m) # {} THEN rate_limits[MinOf(FuzzyMatches(m))].limits
    ELSE IF HasKey(DefaultKey) THEN Lookup(DefaultKey)
    ELSE << <<DefaultLimitCount, DefaultLimitPeriod>> >>

\* utils.py 145: sum(1 for req in log if req > now - limit_period)
RecentRequests(log, t, period) ==
    Cardinality({ i \in DOMAIN log : log[i] > t - period })

\* utils.py 117: now < self.cooling_until[item]
IsCooling(c, t) == t < cooling_until[c]

\* utils.py 143-148: some (count, period) window already holds count requests
WindowFull_OffByOne(c, m, t) ==
    \E i \in DOMAIN ResolveRateLimit(m) :
        RecentRequests(requests[c][ModelKey(m)], t, ResolveRateLimit(m)[i][2])
            > ResolveRateLimit(m)[i][1]
WindowFull(c, m, t) ==
    \E i \in DOMAIN ResolveRateLimit(m) :
        RecentRequests(requests[c][ModelKey(m)], t, ResolveRateLimit(m)[i][2])
            >= ResolveRateLimit(m)[i][1]

\* utils.py 114-148: the value is_rate_limited returns
IsRateLimited_IgnoreCooling(c, m, t) == WindowFull(c, m, t)
IsRateLimited(c, m, t) == IsCooling(c, t) \/ WindowFull(c, m, t)

\* utils.py 151-152
MaxPeriod(m) == MaxOf({ ResolveRateLimit(m)[i][2] : i \in DOMAIN ResolveRateLimit(m) })
TrimmedLog(log, t, max_period) == SelectSeq(log, LAMBDA req : req > t - max_period)

\* utils.py 150-155: the request log once is_rate_limited has returned False
RecordRequest_CheckOnly(c, m, t) == requests
RecordRequest_NoTrimTwice(c, m, t) ==
    [requests EXCEPT ![c][ModelKey(m)] =
        Append(Append(TrimmedLog(@, t, MaxPeriod(m)), t), t)]
RecordRequest(c, m, t) ==
    [requests EXCEPT ![c][ModelKey(m)] = Append(TrimmedLog(@, t, MaxPeriod(m)), t)]

\* ---------------------------------------------------------------- initial state
EmptyLog == [c \in Creds |-> [k \in ModelKeys |-> << >>]]

\* utils.py 69-96: __init__
PoolInit ==
    /\ schedule_algorithm \in Algorithms
    /\ items \in (IF schedule_algorithm = "random"
                  THEN { Reversed(MaxItems) }
                  ELSE { [i \in 1..n |-> i] : n \in 1..MaxItems })
    /\ \E sc \in Scenarios : rate_limits = sc.table /\ callers = sc.callers
    /\ index = 0
    /\ lock = NoTask
    /\ requests = EmptyLog
    /\ cooling_until = [c \in Creds |-> 0]
    /\ now = 0
    /\ calls = 0
    /\ running = NoTask
    /\ pc = "idle"
    /\ model = NoModel
    /\ item = NoCred
    /\ cooling_time = 0
    /\ set_now = 0
    /\ start_index = 0
    /\ result = NoResult
    /\ pre_requests = EmptyLog
    /\ clean = FALSE
    /\ streak = << >>
    /\ cool_deadline = [c \in Creds |-> 0]
    /\ last_next = [t \in Tasks |-> NoCred]

\* a pool nobody uses: the state of the pool while one stream is followed
PoolQuiet ==
    /\ schedule_algorithm = "round_robin"
    /\ items = <<1>>
    /\ rate_limits = TableS4
    /\ callers = {}
    /\ index = 0
    /\ lock = NoTask
    /\ requests = EmptyLog
    /\ cooling_until = [c \in Creds |-> 0]
    /\ now = 0
    /\ calls = 0
    /\ running = NoTask
    /\ pc = "idle"
    /\ model = NoModel
    /\ item = NoCred
    /\ cooling_time = 0
    /\ set_now = 0
    /\ start_index = 0
    /\ result = NoResult
    /\ pre_requests = EmptyLog
    /\ clean = FALSE
    /\ streak = << >>
    /\ cool_deadline = [c \in Creds |-> 0]
    /\ last_next = [t \in Tasks |-> NoCred]

\* ---------------------------------------------------------------- next
\* utils.py 158-159: a task calls next(model) and enters async with self.lock
\* (the lock is free: acquire returns without suspending)
CallNext(t, m) ==
    /\ pc = "idle"
    /\ lock = NoTask
    /\ lock' = t
    /\ calls < MaxCalls
    /\ m \in callers
    /\ calls' = calls + 1
    /\ running' = t
    /\ model' = m
    /\ pc' = "next_enter"
    /\ pre_requests' = requests
    /\ clean' = \A i \in 1..N : ~IsRateLimited(items[i], m, now)
    /\ UNCHANGED << muxVars, wrapVars, emitVars, adaptVars, config, index, requests, cooling_until, now, item,
                    cooling_time, set_now, start_index, result, streak, cool_deadline, last_next >>

\* utils.py 160-162
NextEnter_NoReset ==
    /\ pc = "next_enter"
    /\ index' = index
    /\ start_index' = index'
    /\ pc' = "next_loop"
    /\ UNCHANGED << muxVars, wrapVars, emitVars, adaptVars, config, lock, requests, cooling_until, now, calls, running, model,
                    item, cooling_time, set_now, result, pre_requests, clean, streak,
                    cool_deadline, last_next >>
NextEnter_AlwaysReset ==
    /\ pc = "next_enter"
    /\ index' = 0
    /\ start_index' = index'
    /\ pc' = "next_loop"
    /\ UNCHANGED << muxVars, wrapVars, emitVars, adaptVars, config, lock, requests, cooling_until, now, calls, running, model,
                    item, cooling_time, set_now, result, pre_requests, clean, streak,
                    cool_deadline, last_next >>
NextEnter ==
    /\ pc = "next_enter"
    /\ index' = IF schedule_algorithm = "fixed_priority" THEN 0 ELSE index
    /\ start_index' = index'
    /\ pc' = "next_loop"
    /\ UNCHANGED << muxVars, wrapVars, emitVars, adaptVars, config, lock, requests, cooling_until, now, calls, running, model,
                    item, cooling_time, set_now, result, pre_requests, clean, streak,
                    cool_deadline, last_next >>

\* utils.py 163-173: one iteration of the while loop; self.items[self.index]
\* raises IndexError when the position is none of the list (utils.py 164)
NextLoop_WaitForLimit ==
    /\ pc = "next_loop"
    /\ item' = items[index + 1]
    /\ index' = (index + 1) % N
    /\ IF ~IsRateLimited(item', model, now)
       THEN /\ requests' = RecordRequest(item', model, now)
            /\ result' = item'
            /\ pc' = "next_return"
       ELSE /\ requests' = requests
            /\ result' = result
            /\ pc' = "next_loop"
    /\ UNCHANGED << muxVars, wrapVars, emitVars, adaptVars, config, lock, cooling_until, now, calls, running, model,
                    cooling_time, set_now, start_index, pre_requests, clean, streak,
                    cool_deadline, last_next >>
NextLoop_StayOnReturn ==
    /\ pc = "next_loop"
    /\ item' = items[index + 1]
    /\ IF ~IsRateLimited(item', model, now)
       THEN /\ index' = index
            /\ requests' = RecordRequest(item', model, now)
            /\ result' = item'
            /\ pc' = "next_return"
       ELSE /\ index' = (index + 1) % N
            /\ requests' = requests
            /\ IF index' = start_index
               THEN result' = RateLimited /\ pc' = "next_raise"
               ELSE result' = result /\ pc' = "next_loop"
    /\ UNCHANGED << muxVars, wrapVars, emitVars, adaptVars, config, lock, cooling_until, now, calls, running, model,
                    cooling_time, set_now, start_index, pre_requests, clean, streak,
                    cool_deadline, last_next >>
NextLoop_CountsRejected ==
    /\ pc = "next_loop"
    /\ item' = items[index + 1]
    /\ index' = (index + 1) % N
    /\ requests' = RecordRequest(item', model, now)
    /\ IF ~IsRateLimited(item', model, now)
       THEN /\ result' = item'
            /\ pc' = "next_return"
       ELSE IF index' = start_index
            THEN result' = RateLimited /\ pc' = "next_raise"
            ELSE result' = result /\ pc' = "next_loop"
    /\ UNCHANGED << muxVars, wrapVars, emitVars, adaptVars, config, lock, cooling_until, now, calls, running, model,
                    cooling_time, set_now, start_index, pre_requests, clean, streak,
                    cool_deadline, last_next >>
NextLoop_RaiseAtFirstLimited ==
    /\ pc = "next_loop"
    /\ item' = items[index + 1]
    /\ index' = (index + 1) % N
    /\ IF ~IsRateLimited(item', model, now)
       THEN /\ requests' = RecordRequest(item', model, now)
            /\ result' = item'
            /\ pc' = "next_return"
       ELSE /\ requests' = requests
            /\ result' = RateLimited
            /\ pc' = "next_raise"
    /\ UNCHANGED << muxVars, wrapVars, emitVars, adaptVars, config, lock, cooling_until, now, calls, running, model,
                    cooling_time, set_now, start_index, pre_requests, clean, streak,
                    cool_deadline, last_next >>
NextLoop ==
    /\ pc = "next_loop"
    /\ IF index + 1 \notin DOMAIN items
       THEN /\ result' = IndexError
            /\ pc' = "next_raise"
            /\ UNCHANGED << item, index, requests >>
       ELSE /\ item' = items[index + 1]
            /\ index' = (index + 1) % N
            /\ IF ~IsRateLimited(item', model, now)
               THEN /\ requests' = RecordRequest(item', model, now)
                    /\ result' = item'
                    /\ pc' = "next_return"
               ELSE /\ requests' = requests
                    /\ IF index' = start_index
                       THEN result' = RateLimited /\ pc' = "next_raise"
                       ELSE result' = result /\ pc' = "next_loop"
    /\ UNCHANGED << muxVars, wrapVars, emitVars, adaptVars, config, lock, cooling_until, now, calls, running, model,
                    cooling_time, set_now, start_index, pre_requests, clean, streak,
                    cool_deadline, last_next >>

\* utils.py 159, 168, 173: leaving the async with block releases the lock
NextExit ==
    /\ pc \in {"next_return", "next_raise"}
    /\ lock' = NoTask
    /\ running' = NoTask
    /\ pc' = "idle"
    /\ streak' = IF pc = "next_return" /\ clean /\ schedule_algorithm # "fixed_priority"
                 THEN (IF Len(streak) < N THEN Append(streak, result)
                       ELSE Append(Tail(streak), result))
                 ELSE << >>
    /\ model' = NoModel
    /\ item' = NoCred
    /\ start_index' = 0
    /\ result' = NoResult
    /\ pre_requests' = requests
    /\ clean' = FALSE
    /\ last_next' = [last_next EXCEPT ![running] =
                        IF pc = "next_return" THEN result ELSE NoCred]
    /\ UNCHANGED << muxVars, wrapVars, emitVars, adaptVars, config, index, requests, cooling_until, now, calls, cooling_time,
                    set_now, cool_deadline >>

\* ---------------------------------------------------------------- set_cooling
\* utils.py 98-108: a task calls set_cooling(item, cooling_time); None returns at
\* once, otherwise now is read and async with self.lock entered (the lock is free)
CallSetCooling(t, c, s) ==
    /\ pc = "idle"
    /\ calls < MaxCalls
    /\ c \in 0..N
    /\ calls' = calls + 1
    /\ running' = t
    /\ item' = c
    /\ cooling_time' = s
    /\ pre_requests' = requests
    /\ IF c = NoCred
       THEN pc' = "cool_return" /\ set_now' = set_now /\ lock' = lock
       ELSE pc' = "cool_write" /\ set_now' = now /\ lock = NoTask /\ lock' = t
    /\ UNCHANGED << muxVars, wrapVars, emitVars, adaptVars, config, index, requests, cooling_until, now, model,
                    start_index, result, clean, streak, cool_deadline, last_next >>

\* utils.py 109
CoolWrite_NoDuration ==
    /\ pc = "cool_write"
    /\ cooling_until' = [cooling_until EXCEPT ![item] = set_now]
    /\ pc' = "cool_return"
    /\ UNCHANGED << muxVars, wrapVars, emitVars, adaptVars, config, index, lock, requests, now, calls, running, locals,
                    pre_requests, clean, streak, cool_deadline, last_next >>
CoolWrite_WholePool ==
    /\ pc = "cool_write"
    /\ cooling_until' = [c \in Creds |-> set_now + cooling_time]
    /\ pc' = "cool_return"
    /\ UNCHANGED << muxVars, wrapVars, emitVars, adaptVars, config, index, lock, requests, now, calls, running, locals,
                    pre_requests, clean, streak, cool_deadline, last_next >>
CoolWrite ==
    /\ pc = "cool_write"
    /\ cooling_until' = [cooling_until EXCEPT ![item] = set_now + cooling_time]
    /\ pc' = "cool_return"
    /\ UNCHANGED << muxVars, wrapVars, emitVars, adaptVars, config, index, lock, requests, now, calls, running, locals,
                    pre_requests, clean, streak, cool_deadline, last_next >>

\* utils.py 106, 108-112: return; the lock, when taken, is released
CoolExit ==
    /\ pc = "cool_return"
    /\ lock' = NoTask
    /\ running' = NoTask
    /\ pc' = "idle"
    /\ cool_deadline' = IF item # NoCred
                        THEN [cool_deadline EXCEPT ![item] = now + cooling_time]
                        ELSE cool_deadline
    /\ item' = NoCred
    /\ cooling_time' = 0
    /\ set_now' = 0
    /\ pre_requests' = requests
    /\ UNCHANGED << muxVars, wrapVars, emitVars, adaptVars, config, index, requests, cooling_until, now, calls, model,
                    start_index, result, clean, streak, last_next >>

\* ---------------------------------------------------------------- is_rate_limited
\* utils.py 114: a task calls is_rate_limited(item, model) itself
CallIsRateLimited(t, c, m) ==
    /\ pc = "idle"
    /\ calls < MaxCalls
    /\ c \in 1..N
    /\ m \in callers
    /\ calls' = calls + 1
    /\ running' = t
    /\ item' = c
    /\ model' = m
    /\ pc' = "irl_body"
    /\ pre_requests' = requests
    /\ UNCHANGED << muxVars, wrapVars, emitVars, adaptVars, config, index, lock, requests, cooling_until, now, cooling_time,
                    set_now, start_index, result, clean, streak, cool_deadline, last_next >>

\* utils.py 115-156: the body; no lock is taken
IsRateLimitedBody ==
    /\ pc = "irl_body"
    /\ IF IsRateLimited(item, model, now)
       THEN requests' = requests /\ result' = TRUE
       ELSE requests' = RecordRequest(item, model, now) /\ result' = FALSE
    /\ pc' = "irl_return"
    /\ UNCHANGED << muxVars, wrapVars, emitVars, adaptVars, config, index, lock, cooling_until, now, calls, running, model,
                    item, cooling_time, set_now, start_index, pre_requests, clean,
                    streak, cool_deadline, last_next >>

IsRateLimitedExit ==
    /\ pc = "irl_return"
    /\ running' = NoTask
    /\ pc' = "idle"
    /\ model' = NoModel
    /\ item' = NoCred
    /\ result' = NoResult
    /\ pre_requests' = requests
    /\ UNCHANGED << muxVars, wrapVars, emitVars, adaptVars, config, index, lock, requests, cooling_until, now, calls,
                    cooling_time, set_now, start_index, clean, streak, cool_deadline, last_next >>

\* ---------------------------------------------------------------- after_next_current
\* utils.py 175-179: a task calls after_next_current(); an empty pool gives
\* None at once, otherwise async with self.lock is entered (the lock is free)
CallAfterNextCurrent(t) ==
    /\ pc = "idle"
    /\ running' = t
    /\ IF N = 0
       THEN pc' = "anc_return" /\ lock' = lock
       ELSE pc' = "anc_read" /\ lock = NoTask /\ lock' = t
    /\ UNCHANGED << muxVars, wrapVars, emitVars, adaptVars, config, index, requests,
                    cooling_until, now, calls, locals, pre_requests, clean, streak,
                    cool_deadline, last_next >>

\* utils.py 180-181: item = self.items[(self.index - 1) % len(self.items)],
\* where % gives N - 1 for index 0
AfterNextCurrentRead ==
    /\ pc = "anc_read"
    /\ item' = items[((index + N - 1) % N) + 1]
    /\ result' = item'
    /\ pc' = "anc_return"
    /\ UNCHANGED << muxVars, wrapVars, emitVars, adaptVars, config, index, lock, requests,
                    cooling_until, now, calls, running, model, cooling_time, set_now,
                    start_index, pre_requests, clean, streak, cool_deadline, last_next >>

\* utils.py 178, 181: return; the lock, when taken, is released
AfterNextCurrentExit ==
    /\ pc = "anc_return"
    /\ lock' = NoTask
    /\ running' = NoTask
    /\ pc' = "idle"
    /\ item' = NoCred
    /\ result' = NoResult
    /\ UNCHANGED << muxVars, wrapVars, emitVars, adaptVars, config, index, requests,
                    cooling_until, now, calls, model, cooling_time, set_now, start_index,
                    pre_requests, clean, streak, cool_deadline, last_next >>

\* ---------------------------------------------------------------- time
\* time() between two calls; a call itself takes no measurable time
Tick ==
    /\ pc = "idle"
    /\ now < MaxTime
    /\ now' = now + 1
    /\ UNCHANGED << muxVars, wrapVars, emitVars, adaptVars, config, index, lock, requests, cooling_until, calls, running, pc,
                    locals, pre_requests, clean, streak, cool_deadline, last_next >>

\* ================================================================ properties
\* what the claims speak of, stated on the state and on the history variables

\* model_key: the literal model name, "default" when no model was given
KeyOf(m) == IF m = NoModel THEN DefaultKey ELSE m

\* number of timestamps of log in the window (t - period, t]
WindowCount(log, t, period) ==
    Cardinality({ i \in DOMAIN log : log[i] > t - period /\ log[i] <= t })

\* some applicable window of (c, key of m) held count or more timestamps when
\* the executing call started
FullBefore(c, m) ==
    \E i \in DOMAIN ResolveRateLimit(m) :
        WindowCount(pre_requests[c][KeyOf(m)], now, ResolveRateLimit(m)[i][2])
            >= ResolveRateLimit(m)[i][1]
LimitedBefore(c, m) == cooling_until[c] > now \/ FullBefore(c, m)

PositionOf(c) == CHOOSE i \in 1..N : items[i] = c
IsSuffix(s, l) == Len(s) <= Len(l) /\ s = SubSeq(l, Len(l) - Len(s) + 1, Len(l))
OtherLogsUnchanged(c, k) ==
    \A c2 \in Creds, k2 \in ModelKeys :
        (c2 # c \/ k2 # k) => requests[c2][k2] = pre_requests[c2][k2]

\* C1: in every state, for every credential, every model key and every
\* applicable (count, period), no window (t - period, t] of the request log
\* holds more than count timestamps.
C1_WindowNeverExceedsCount ==
    \A m \in callers :
        LET rl == ResolveRateLimit(m)
            k == KeyOf(m)
        IN  \A c \in Creds :
                \/ requests[c][k] = << >>
                \/ \A i \in DOMAIN rl, t \in 0..MaxTime :
                       WindowCount(requests[c][k], t, rl[i][2]) <= rl[i][1]

\* a window is exactly full and a call has just been refused because of it
C1_Witness ==
    /\ pc = "irl_return"
    /\ result = TRUE
    /\ cooling_until[item] <= now
    /\ \E i \in DOMAIN ResolveRateLimit(model) :
         WindowCount(requests[item][KeyOf(model)], now, ResolveRateLimit(model)[i][2])
             = ResolveRateLimit(model)[i][1]

\* C2: the credential next returns was, when the call started, neither
\* cooling nor holding count or more timestamps in any applicable window.
C2_ReturnedNotLimited ==
    pc = "next_return" =>
        /\ cooling_until[result] <= now
        /\ ~FullBefore(result, model)

\* next returned a credential after passing over a cooling one
C2_Witness ==
    /\ pc = "next_return"
    /\ \E i \in 1..N : items[i] # result /\ cooling_until[items[i]] > now

\* C3: next raises RateLimited exactly when every credential of the pool was
\* cooling or rate-limited for the model when the call started; otherwise it
\* returns a credential of the pool.
C3_RaisesIffAllLimited ==
    /\ pc = "next_raise" =>
         result = RateLimited /\ \A i \in 1..N : LimitedBefore(items[i], model)
    /\ pc = "next_return" =>
         /\ \E i \in 1..N : result = items[i]
         /\ \E i \in 1..N : ~LimitedBefore(items[i], model)

\* S4: one credential, limit 1 per 60 s, one request on record, second next raises
C3_Witness ==
    /\ pc = "next_raise"
    /\ N = 1
    /\ rate_limits = TableS4
    /\ Len(requests[items[1]][KeyOf(model)]) = 1
    /\ now - requests[items[1]][KeyOf(model)][1] < 60

\* C4: under fixed_priority a successful next returns the credential of lowest
\* list index among those not limited when the call started.
C4_FixedPriorityLowestIndex ==
    (schedule_algorithm = "fixed_priority" /\ pc = "next_return") =>
        /\ ~LimitedBefore(result, model)
        /\ \A i \in 1..N : i < PositionOf(result) => LimitedBefore(items[i], model)

\* fixed_priority returned the second credential because the first was limited
C4_Witness ==
    /\ schedule_algorithm = "fixed_priority"
    /\ pc = "next_return"
    /\ N >= 2
    /\ result = items[2]

\* C5: under round_robin, consecutive successful next calls made while no
\* credential is limited return the credentials in list order modulo N, so N
\* of them return every credential exactly once.
C5_RoundRobinFair ==
    schedule_algorithm = "round_robin" =>
        /\ \A j \in 1..(Len(streak) - 1) :
             PositionOf(streak[j + 1]) = (PositionOf(streak[j]) % N) + 1
        /\ Len(streak) = N => { streak[j] : j \in 1..N } = { items[i] : i \in 1..N }

\* N consecutive clean selections on a pool of at least two credentials
C5_Witness ==
    /\ schedule_algorithm = "round_robin"
    /\ N >= 2
    /\ Len(streak) = N

\* C6: before completion time + seconds of the last set_cooling(c, seconds),
\* is_rate_limited(c, m) returns true and next does not return c.
C6_CoolingHonoured ==
    /\ (pc = "irl_return" /\ now < cool_deadline[item]) => result = TRUE
    /\ pc = "next_return" => now >= cool_deadline[result]

\* a cooling credential with an empty request log is reported limited, some
\* time after set_cooling completed
C6_Witness ==
    /\ pc = "irl_return"
    /\ result = TRUE
    /\ now < cool_deadline[item]
    /\ now > 0
    /\ \A k \in ModelKeys : requests[item][k] = << >>

\* C7: after a successful next the log of (returned credential, model_key) is
\* what was there before (less trimmed entries) plus one new entry, the time
\* of the call; every other log, also of the skipped credentials, is unchanged.
C7_OneNewTimestamp ==
    pc = "next_return" =>
        /\ Len(requests[result][KeyOf(model)]) >= 1
        /\ requests[result][KeyOf(model)][Len(requests[result][KeyOf(model)])] = now
        /\ IsSuffix(SubSeq(requests[result][KeyOf(model)], 1,
                           Len(requests[result][KeyOf(model)]) - 1),
                    pre_requests[result][KeyOf(model)])
        /\ OtherLogsUnchanged(result, KeyOf(model))

\* next for a named model skipped the first credential and recorded the second
C7_Witness ==
    /\ pc = "next_return"
    /\ model # NoModel
    /\ N >= 2
    /\ start_index = 0
    /\ result = items[2]
    /\ requests[result][model] = <<now>>

\* C8 as claimed: is_rate_limited never appends to the request log.
C8_CheckOnly ==
    pc = "irl_return" =>
        IsSuffix(requests[item][KeyOf(model)], pre_requests[item][KeyOf(model)])

\* C8 as amended: is_rate_limited changes nothing when it returns true; when it
\* returns false it has trimmed the log of (credential, model_key) and appended
\* the time of the call to it, and changed no other log.
C8_RecordsWhenNotLimited ==
    pc = "irl_return" =>
        /\ result = TRUE => requests = pre_requests
        /\ result = FALSE =>
             /\ requests[item][KeyOf(model)] =
                  Append(SelectSeq(pre_requests[item][KeyOf(model)],
                                   LAMBDA r : r > now - MaxPeriod(model)), now)
             /\ OtherLogsUnchanged(item, KeyOf(model))

\* a direct is_rate_limited call returned false and the log grew by one
C8_Witness ==
    /\ pc = "irl_return"
    /\ result = FALSE
    /\ Len(requests[item][KeyOf(model)]) = Len(pre_requests[item][KeyOf(model)]) + 1

\* the positions of the rate-limit table whose key is the model name
ExactEntries(m) == { i \in DOMAIN rate_limits : m # NoModel /\ rate_limits[i].key = m }
\* the positions whose key is not "default" and occurs inside the model name
SubstringEntries(m) ==
    { i \in DOMAIN rate_limits :
        /\ m # NoModel
        /\ rate_limits[i].key # DefaultKey
        /\ \E a \in 0..Len(m), b \in 0..Len(m) :
             a <= b /\ rate_limits[i].key = SubSeq(m, a + 1, b) }
DefaultEntries == { i \in DOMAIN rate_limits : rate_limits[i].key = DefaultKey }

\* the lists the priority exact, substring, "default", [(999999, 60)] admits
ListsByPriority(m) ==
    IF ExactEntries(m) # {} THEN { rate_limits[i].limits : i \in ExactEntries(m) }
    ELSE IF SubstringEntries(m) # {}
         THEN { rate_limits[i].limits : i \in SubstringEntries(m) }
    ELSE IF DefaultEntries # {} THEN { rate_limits[i].limits : i \in DefaultEntries }
    ELSE { << <<999999, 60>> >> }

\* some window of the list rl held its count of timestamps when the call started
FullUnder(rl, c, m) ==
    \E i \in DOMAIN rl : WindowCount(pre_requests[c][KeyOf(m)], now, rl[i][2]) >= rl[i][1]
LongestPeriod(rl) == CHOOSE p \in { rl[i][2] : i \in DOMAIN rl } :
                         \A i \in DOMAIN rl : rl[i][2] <= p

\* C28: the list is_rate_limited applies to (credential, model) is the entry
\* whose key is the model name, else an entry whose non-default key is a
\* substring of it, else the "default" entry, else [(999999, 60)]: a call on a
\* credential that is not cooling answers, and trims the log, by that list
C28_ListByPriority ==
    (pc = "irl_return" /\ cooling_until[item] <= now) =>
        \E rl \in ListsByPriority(model) :
            /\ result = FullUnder(rl, item, model)
            /\ result = FALSE =>
                 requests[item][KeyOf(model)] =
                     Append(SelectSeq(pre_requests[item][KeyOf(model)],
                                      LAMBDA r : r > now - LongestPeriod(rl)), now)

\* the table has an entry for the model name and, before it, an entry for a
\* substring of the name; the call is refused by the first and would have
\* passed by the second
C28_Witness ==
    /\ pc = "irl_return"
    /\ cooling_until[item] <= now
    /\ ExactEntries(model) # {}
    /\ \E i \in SubstringEntries(model) \ ExactEntries(model) :
         /\ \A j \in ExactEntries(model) : i < j
         /\ ~FullUnder(rate_limits[i].limits, item, model)
    /\ result = TRUE

\* C29: after_next_current returns the credential the caller's latest
\* successful next returned, whatever the other tasks have called between
C29_CurrentIsCallersCredential ==
    (pc = "anc_return" /\ last_next[running] # NoCred) => result = last_next[running]

\* after_next_current returns the credential at position (index - 1) mod N
C29_CurrentIsBeforeIndex ==
    pc = "anc_return" => result = items[IF index = 0 THEN N ELSE index]

\* it is the caller's credential when the caller's next was the only call made
C29_CurrentAfterOwnNext ==
    (pc = "anc_return" /\ last_next[running] # NoCred /\ calls = 1) =>
        result = last_next[running]

\* the (credential, model_key) pairs whose timestamp list a step changes
LogsChanged ==
    { ck \in Creds \X ModelKeys : requests'[ck[1]][ck[2]] # requests[ck[1]][ck[2]] }
\* the credentials whose cooling time a step changes
CoolingChanged == { c \in Creds : cooling_until'[c] # cooling_until[c] }

\* C30: the steps of next leave the cooling map alone and change no
\* timestamp list but, on returning a credential, the list of that credential
\* and the model key of the call; the steps of set_cooling(c, s) leave the
\* index and every timestamp list alone and change no cooling time but that of
\* c; the steps of set_cooling(null) change nothing of the pool
C30_FrameOfNextAndSetCooling ==
    [][ /\ pc \in { "next_enter", "next_loop", "next_return", "next_raise" } =>
             /\ CoolingChanged = {}
             /\ LogsChanged # {} =>
                  /\ pc' = "next_return"
                  /\ LogsChanged = { << result', KeyOf(model) >> }
             /\ (index' # index /\ pc = "next_loop" /\ pc' = "next_loop") =>
                  LogsChanged = {}
        /\ pc \in { "cool_write", "cool_return" } =>
             /\ index' = index
             /\ LogsChanged = {}
             /\ CoolingChanged \subseteq { item }
             /\ item = NoCred => CoolingChanged = {}
      ]_vars

\* next has passed over a cooling credential and returned the other one, whose
\* timestamp list alone has grown
C30_Witness ==
    /\ pc = "next_return"
    /\ N = 2
    /\ \E c \in 1..N : c # result /\ cooling_until[c] > now
    /\ Len(requests[result][KeyOf(model)]) = Len(pre_requests[result][KeyOf(model)]) + 1
    /\ \A c \in Creds, k \in ModelKeys :
         (c # result \/ k # KeyOf(model)) => requests[c][k] = pre_requests[c][k]

\* 0-based position of the credential next returns
ReturnedAt == PositionOf(result) - 1
\* the credentials a round-robin next has passed over before it returns: those
\* from start_index up to the one before the returned credential, going round
SkippedCount == (ReturnedAt + N - start_index) % N
Skipped == { items[((start_index + k) % N) + 1] : k \in 0..(SkippedCount - 1) }

\* C31 as claimed: after a round-robin next has returned the credential at
\* position p, the index is (p + 1) mod N and the credential at the index,
\* which the following next examines first, is neither the returned one nor
\* one of those skipped
C31_SkippedNotExaminedFirst ==
    (pc = "next_return" /\ schedule_algorithm = "round_robin") =>
        /\ index = (ReturnedAt + 1) % N
        /\ items[index + 1] # result
        /\ items[index + 1] \notin Skipped

\* C31 as amended: a round-robin next that returns the credential at position
\* p leaves the index at (p + 1) mod N; nothing but the loop of next moves the
\* index, and the following next starts examining at it. The credential there
\* is the returned one only in a pool of one, and a skipped one only when the
\* call went all the way round the pool
C31_IndexPastReturned ==
    [][ schedule_algorithm = "round_robin" =>
          /\ (pc = "next_loop" /\ pc' = "next_return") =>
                /\ index' = PositionOf(result') % N
                /\ items[index' + 1] = result' => N = 1
                /\ items[index' + 1] \in
                       { items[((start_index + k) % N) + 1] :
                           k \in 0..(((PositionOf(result') - 1 + N - start_index) % N) - 1) }
                     => (PositionOf(result') - 1 + N - start_index) % N = N - 1
          /\ pc # "next_loop" => index' = index
          /\ pc = "next_enter" => start_index' = index
          /\ pc = "next_loop" => item' = items[index + 1]
      ]_vars

\* a round-robin next on a pool of two has started at the first credential,
\* skipped it and returned the second: the index is back at the skipped one
C31_Witness ==
    /\ pc = "next_return"
    /\ schedule_algorithm = "round_robin"
    /\ N = 2
    /\ start_index = 0
    /\ Skipped = { items[1] }
    /\ result = items[2]
    /\ index = 0

\* C32: on a non-empty pool every call of next, set_cooling and
\* after_next_current completes: the loop of next goes on only to a position
\* it has not examined in this call (at most N examinations, no waiting for a
\* limit to expire), no call is executing without end, and once a call is over
\* the lock is free, also when next has raised RateLimited
C32_EveryCallCompletes ==
    /\ [][(pc = "next_loop" /\ pc' = "next_loop") => index' # start_index]_vars
    /\ [](pc = "idle" => lock = NoTask /\ running = NoTask)
    /\ \A t \in Tasks : (running = t) ~> (running = NoTask /\ lock = NoTask)

\* next has examined every credential of the pool, found them all limited
\* and is about to leave with RateLimited, still holding the lock
C32_Witness ==
    /\ pc = "next_raise"
    /\ index = start_index
    /\ \A i \in 1..N : cooling_until[items[i]] > now \/ requests[items[i]][model] # << >>
    /\ result = RateLimited
    /\ lock = running
    /\ running # NoTask

CallerKeys == { KeyOf(m) : m \in callers }

\* C35: the quota of a credential is accounted by the literal model name
\* ("default" when no model is given): a call for model m on credential c is
\* decided by the cooling time of c and the timestamps of (c, key of m) alone,
\* and records under that key alone, so a list under a key no caller uses
\* stays empty, the key of the rate-limit entry the callers resolve to included
C35_QuotaPerLiteralModel ==
    /\ \A c \in Creds, k \in ModelKeys : k \notin CallerKeys => requests[c][k] = << >>
    /\ pc = "irl_return" =>
          /\ result = LimitedBefore(item, model)
          /\ OtherLogsUnchanged(item, KeyOf(model))
    /\ pc = "next_return" =>
          /\ ~LimitedBefore(result, model)
          /\ OtherLogsUnchanged(result, KeyOf(model))
          /\ requests[result][KeyOf(model)] # << >>
    /\ pc = "next_raise" => \A i \in 1..N : LimitedBefore(items[i], model)

\* model names a and ab resolve to the one entry "default" of one request a
\* minute; the credential has its request of the minute for a, and next has
\* returned it for ab
C35_Witness ==
    /\ pc = "next_return"
    /\ model = ModelAB
    /\ ModelA \in callers
    /\ ResolveRateLimit(ModelA) = ResolveRateLimit(ModelAB)
    /\ FullBefore(result, ModelA)
    /\ pre_requests[result][ModelAB] = << >>
    /\ requests[result][ModelAB] = << now >>
    /\ requests[result][DefaultKey] = << >>

\* C36 as claimed: on a pool of no credential next fails with RateLimited, as
\* on a pool whose credentials are all limited: it returns nothing, fails in
\* no other way, and leaves its loop
C36_EmptyPoolRateLimited ==
    /\ N = 0 => pc # "next_return"
    /\ (N = 0 /\ pc = "next_raise") => result = RateLimited
    /\ (N = 0 /\ pc = "next_loop") => index = start_index

\* what next does on a pool of no credential: self.items[self.index] raises
\* IndexError in the first pass of the loop, nothing is recorded and the lock
\* is released
C36_EmptyPoolIndexError ==
    /\ N = 0 => pc # "next_return"
    /\ (N = 0 /\ pc = "next_raise") =>
          /\ result = IndexError
          /\ index = 0
          /\ requests = EmptyLog
    /\ (N = 0 /\ pc = "idle") => lock = NoTask

\* C9 as claimed: every step that changes the index, the request log or the
\* cooling map is taken by the task that holds the pool lock.
C9_MutationsUnderLock ==
    [][(index' # index \/ requests' # requests \/ cooling_until' # cooling_until)
         => (lock # NoTask /\ lock = running)]_vars


\* ================================================================ multiplexer
\* response.py 376-494: heartbeat_generator and fetch_response_stream

\* An item of the stream is a string, here the sequence of its pieces; the
\* piece "[DONE]" is that text wherever it stands in the string.
EndOfLine == "\\n\\n"
Payloads == <<"e1", "e2", "e3", "e4">>
TextEvent(n) == <<"data: ", Payloads[n], EndOfLine>>
\* a delta whose content quotes the text [DONE]
QuotingEvent(n) == <<"data: ", Payloads[n], "[DONE]", EndOfLine>>
\* response.py 91, 138, 159
DoneEvent == <<"data: ", "[DONE]", EndOfLine>>
\* response.py 21: the dict check_response builds for a non-2xx answer
ErrorEvent == <<"{error, status_code, details}">>
\* response.py 394
HeartbeatLine == <<": uni-api-heartbeat", EndOfLine>>
\* what a completed __anext__ task holds when the adapter has ended
StopAsyncIteration == <<"StopAsyncIteration">>
\* ... and when the adapter's body raised (a read error, a line it cannot parse)
AdapterError == <<"Exception">>

\* "[DONE]" in result  (response.py 450); on a dict the test is on its keys
ContainsDone(ev) == \E i \in DOMAIN ev : ev[i] = "[DONE]"

\* response.py 416-431
Engines ==
    { "gemini", "vertex-gemini", "claude", "vertex-claude", "gpt", "azure",
      "openrouter", "cloudflare", "cohere" }
UnknownEngine == "unknown"

\* response.py 377: interval=2
Interval == 2
\* the silence of the upstream of scenario S5 (5 s): two intervals and a second
SilentFor == 2 * Interval + 1

\* What the upstream sends: its status, the content lines of its body, how the
\* body ends (with the provider's terminator, by closing the connection, or
\* with a fault that makes the adapter raise), and how long it stays silent.
AdapterBodies ==
    UNION { { b \in [1..n -> {"text", "quoting"}] : TRUE } : n \in 0..MaxEvents }
Endings == { "terminator", "eof", "fault" }
Upstreams ==
    { [status |-> "2xx", body |-> b, ending |-> e, silence |-> 0] :
        b \in AdapterBodies, e \in Endings }
    \cup { [status |-> "5xx", body |-> << >>, ending |-> "eof", silence |-> 0] }
EventsOf(b) ==
    [i \in DOMAIN b |-> IF b[i] = "text" THEN TextEvent(i) ELSE QuotingEvent(i)]

\* response.py 91, 307: the gemini and claude adapters yield data: [DONE] when
\* the body is over; the others (159, 188, 217, 241) only on the upstream's
\* own terminator
EmitsDoneAtEof(e) == e \in { "gemini", "vertex-gemini", "claude", "vertex-claude" }

\* response.py 24-307: the events the adapter of engine e yields for upstream u
AdapterEvents(e, u) ==
    IF u.status # "2xx" THEN <<ErrorEvent>>
    ELSE EventsOf(u.body) \o
         (IF u.ending = "terminator" \/ (u.ending = "eof" /\ EmitsDoneAtEof(e))
          THEN <<DoneEvent>> ELSE << >>)
\* the adapter ends by raising instead of returning
AdapterRaises(u) == u.status = "2xx" /\ u.ending = "fault"

\* the streams an adapter can produce
AdapterStreams == { AdapterEvents(e, u) : e \in Engines, u \in Upstreams }

NoUpstream == [status |-> "2xx", body |-> << >>, ending |-> "eof", silence |-> 0]

MuxQuiet ==
    /\ engine = UnknownEngine
    /\ upstream = NoUpstream
    /\ adapter = << >>
    /\ produced = 0
    /\ response_task = "None"
    /\ response_result = << >>
    /\ heartbeat_task = "None"
    /\ queue = 0
    /\ beats = 0
    /\ done_order = << >>
    /\ output = << >>
    /\ mpc = "off"
    /\ exit_kind = "none"
    /\ producer = "none"
    /\ aclose_calls = 0
    /\ clock = 0

\* response.py 409-413: fetch_response_stream is called; heartbeat_generator
\* has started send_heartbeat
MuxStart(e, u) ==
    /\ engine = e
    /\ upstream = u
    /\ adapter = (IF e \in Engines THEN AdapterEvents(e, u) ELSE << >>)
    /\ produced = 0
    /\ response_task = "None"
    /\ response_result = << >>
    /\ heartbeat_task = "None"
    /\ queue = 0
    /\ beats = 0
    /\ done_order = << >>
    /\ output = << >>
    /\ mpc = "dispatch"
    /\ exit_kind = "none"
    /\ producer = "running"
    /\ aclose_calls = 0
    /\ clock = 0

MuxInit ==
    \/ \E e \in Engines, u \in Upstreams : MuxStart(e, u)
    \/ MuxStart(UnknownEngine, NoUpstream)

\* response.py 416-431: response_gen is created, or ValueError raised
MuxDispatch ==
    /\ mpc = "dispatch"
    /\ IF engine \in Engines
       THEN mpc' = "loop" /\ exit_kind' = exit_kind
       ELSE mpc' = "finally" /\ exit_kind' = "raise"
    /\ UNCHANGED << poolVars, wrapVars, emitVars, adaptVars, engine, upstream, adapter, produced, response_task,
                    response_result, heartbeat_task, queue, beats, done_order, output,
                    producer, aclose_calls, clock >>

\* response.py 435-438: create the tasks that are None
MuxArm_HeartbeatOnce ==
    /\ mpc = "loop"
    /\ response_task' = IF response_task = "None" THEN "pending" ELSE response_task
    /\ heartbeat_task' = IF heartbeat_task = "None" /\ output = << >>
                         THEN "pending" ELSE heartbeat_task
    /\ mpc' = "wait"
    /\ UNCHANGED << poolVars, wrapVars, emitVars, adaptVars, engine, upstream, adapter, produced, response_result, queue,
                    beats, done_order, output, exit_kind, producer, aclose_calls, clock >>
MuxArm ==
    /\ mpc = "loop"
    /\ response_task' = IF response_task = "None" THEN "pending" ELSE response_task
    /\ heartbeat_task' = IF heartbeat_task = "None" THEN "pending" ELSE heartbeat_task
    /\ mpc' = "wait"
    /\ UNCHANGED << poolVars, wrapVars, emitVars, adaptVars, engine, upstream, adapter, produced, response_result, queue,
                    beats, done_order, output, exit_kind, producer, aclose_calls, clock >>

\* response_gen.__anext__() completes with the adapter's next event
AdapterYield ==
    /\ response_task = "pending"
    /\ produced < Len(adapter)
    /\ response_task' = "done"
    /\ response_result' = adapter[produced + 1]
    /\ produced' = produced + 1
    /\ UNCHANGED << poolVars, wrapVars, emitVars, adaptVars, engine, upstream, adapter, heartbeat_task, queue, beats,
                    done_order, output, mpc, exit_kind, producer, aclose_calls, clock >>

\* response_gen.__anext__() completes with an exception: StopAsyncIteration
\* when the adapter returned, the adapter's own exception when it raised
AdapterStop ==
    /\ response_task = "pending"
    /\ produced = Len(adapter)
    /\ response_task' = "done"
    /\ response_result' = IF AdapterRaises(upstream) THEN AdapterError
                          ELSE StopAsyncIteration
    /\ UNCHANGED << poolVars, wrapVars, emitVars, adaptVars, engine, upstream, adapter, produced, heartbeat_task, queue,
                    beats, done_order, output, mpc, exit_kind, producer, aclose_calls,
                    clock >>

\* response.py 390-394: send_heartbeat puts one line after each interval
SendHeartbeat ==
    /\ producer = "running"
    /\ beats < MaxBeats
    /\ beats' = beats + 1
    /\ queue' = queue + 1
    /\ UNCHANGED << poolVars, wrapVars, emitVars, adaptVars, engine, upstream, adapter, produced, response_task,
                    response_result, heartbeat_task, done_order, output, mpc, exit_kind,
                    producer, aclose_calls, clock >>

\* response.py 438: heartbeat_queue.get() completes
HeartbeatGet ==
    /\ heartbeat_task = "pending"
    /\ queue > 0
    /\ queue' = queue - 1
    /\ heartbeat_task' = "done"
    /\ UNCHANGED << poolVars, wrapVars, emitVars, adaptVars, engine, upstream, adapter, produced, response_task,
                    response_result, beats, done_order, output, mpc, exit_kind, producer,
                    aclose_calls, clock >>

\* response.py 440-445: asyncio.wait returns the set of completed tasks; the
\* for loop visits a set, in an order of its own
DoneOrders ==
    LET d == { t \in {"response", "heartbeat"} :
                 IF t = "response" THEN response_task = "done"
                 ELSE heartbeat_task = "done" }
    IN  { o \in UNION { [1..n -> d] : n \in 1..2 } :
            /\ Len(o) = Cardinality(d)
            /\ \A i, j \in DOMAIN o : i # j => o[i] # o[j] }
MuxWake ==
    /\ mpc = "wait"
    /\ response_task = "done" \/ heartbeat_task = "done"
    /\ done_order' \in DoneOrders
    /\ mpc' = "for"
    /\ UNCHANGED << poolVars, wrapVars, emitVars, adaptVars, engine, upstream, adapter, produced, response_task,
                    response_result, heartbeat_task, queue, beats, output, exit_kind,
                    producer, aclose_calls, clock >>

\* a task that ended with an exception: await task raises it
Failed(r) == r \in { StopAsyncIteration, AdapterError }

\* response.py 445-449, 452-454: the for loop takes the next task of done,
\* awaits it and yields its result; the generator is suspended at the yield
MuxFor ==
    /\ mpc = "for"
    /\ IF done_order = << >>
       THEN /\ mpc' = "loop"
            /\ UNCHANGED << response_task, heartbeat_task, output, exit_kind >>
       ELSE IF Head(done_order) = "response"
       THEN IF Failed(response_result)
            THEN /\ mpc' = "finally"
                 /\ exit_kind' = "raise"
                 /\ UNCHANGED << response_task, heartbeat_task, output >>
            ELSE /\ response_task' = "None"
                 /\ output' = Append(output, response_result)
                 /\ mpc' = "yield_response"
                 /\ UNCHANGED << heartbeat_task, exit_kind >>
       ELSE /\ heartbeat_task' = "None"
            /\ output' = Append(output, HeartbeatLine)
            /\ mpc' = "yield_heartbeat"
            /\ UNCHANGED << response_task, exit_kind >>
    /\ UNCHANGED << poolVars, wrapVars, emitVars, adaptVars, engine, upstream, adapter, produced, response_result, queue,
                    beats, done_order, producer, aclose_calls, clock >>

\* response.py 449-451, 454: the consumer asks for the next item and the
\* generator goes on after the yield
MuxResume ==
    /\ mpc \in { "yield_response", "yield_heartbeat" }
    /\ IF mpc = "yield_response" /\ ContainsDone(response_result)
       THEN mpc' = "finally" /\ exit_kind' = "return" /\ done_order' = done_order
       ELSE mpc' = "for" /\ exit_kind' = exit_kind /\ done_order' = Tail(done_order)
    /\ UNCHANGED << poolVars, wrapVars, emitVars, adaptVars, engine, upstream, adapter, produced, response_task,
                    response_result, heartbeat_task, queue, beats, output, producer,
                    aclose_calls, clock >>

\* the consumer closes the generator suspended at a yield (aclose, or its
\* finalizer once the consumer is gone): GeneratorExit is raised at the yield
ClientClose ==
    /\ mpc \in { "yield_response", "yield_heartbeat" }
    /\ mpc' = "except"
    /\ exit_kind' = "close"
    /\ UNCHANGED << poolVars, wrapVars, emitVars, adaptVars, engine, upstream, adapter, produced, response_task,
                    response_result, heartbeat_task, queue, beats, done_order, output,
                    producer, aclose_calls, clock >>

\* the consumer's task is cancelled while the generator waits in asyncio.wait:
\* CancelledError is raised at the await (response.py 440)
ClientCancel ==
    /\ mpc = "wait"
    /\ mpc' = "finally"
    /\ exit_kind' = "cancel"
    /\ UNCHANGED << poolVars, wrapVars, emitVars, adaptVars, engine, upstream, adapter, produced, response_task,
                    response_result, heartbeat_task, queue, beats, done_order, output,
                    producer, aclose_calls, clock >>

\* task.cancel(): a task that is still pending is cancelled, a finished one is
\* left as it is
Cancel(task) == IF task = "pending" THEN "cancelled" ELSE task

\* response.py 459-463, 475-479: cancel response_task and await it; the await
\* raises what the task ended with unless that is CancelledError or
\* StopAsyncIteration
AwaitRaises == response_task = "done" /\ response_result = AdapterError

\* response.py 456-470: except GeneratorExit
MuxExcept ==
    /\ mpc = "except"
    /\ response_task' = Cancel(response_task)
    /\ heartbeat_task' = IF AwaitRaises THEN heartbeat_task ELSE Cancel(heartbeat_task)
    /\ exit_kind' = IF AwaitRaises THEN "raise" ELSE exit_kind
    /\ mpc' = "finally"
    /\ UNCHANGED << poolVars, wrapVars, emitVars, adaptVars, engine, upstream, adapter, produced, response_result, queue,
                    beats, done_order, output, producer, aclose_calls, clock >>

\* response.py 472-494: finally; an exception of `await response_task` leaves
\* the block at once
MuxFinally ==
    /\ mpc = "finally"
    /\ response_task' = Cancel(response_task)
    /\ heartbeat_task' = IF AwaitRaises THEN heartbeat_task ELSE Cancel(heartbeat_task)
    /\ aclose_calls' = IF AwaitRaises \/ engine \notin Engines THEN aclose_calls
                       ELSE aclose_calls + 1
    /\ exit_kind' = IF AwaitRaises THEN "raise" ELSE exit_kind
    /\ mpc' = "exit"
    /\ UNCHANGED << poolVars, wrapVars, emitVars, adaptVars, engine, upstream, adapter, produced, response_result, queue,
                    beats, done_order, output, producer, clock >>

\* response.py 401-407: leaving the async with block cancels send_heartbeat
\* and awaits it; fetch_response_stream is over
HeartbeatExit ==
    /\ mpc = "exit"
    /\ producer' = "cancelled"
    /\ mpc' = CASE exit_kind = "return" -> "returned"
              [] exit_kind = "close" -> "closed"
              [] exit_kind = "cancel" -> "cancelled"
              [] OTHER -> "raised"
    /\ UNCHANGED << poolVars, wrapVars, emitVars, adaptVars, engine, upstream, adapter, produced, response_task,
                    response_result, heartbeat_task, queue, beats, done_order, output,
                    exit_kind, aclose_calls, clock >>

\* ---------------------------------------------------------------- timed runs
\* The same program with the clock: send_heartbeat puts its k-th line when
\* k * interval seconds have passed, the upstream sends nothing before its
\* silence is over, and a second passes only when nothing is ready to run
\* (the event loop runs what is ready before it sleeps; the consumer asks for
\* the next item as soon as it has one).
HeartbeatDue == producer = "running" /\ beats < MaxBeats /\ clock >= Interval * (beats + 1)
DueSendHeartbeat == HeartbeatDue /\ SendHeartbeat
UpstreamAwake == clock >= upstream.silence
AwakeAdapterYield == UpstreamAwake /\ AdapterYield
AwakeAdapterStop == UpstreamAwake /\ AdapterStop
Ready ==
    \/ mpc # "wait"
    \/ response_task = "done"
    \/ heartbeat_task = "done"
    \/ heartbeat_task = "pending" /\ queue > 0
    \/ HeartbeatDue
SecondPasses ==
    /\ ~Ready
    /\ clock < MaxClock
    /\ clock' = clock + 1
    /\ UNCHANGED << poolVars, wrapVars, emitVars, adaptVars, engine, upstream, adapter, produced, response_task,
                    response_result, heartbeat_task, queue, beats, done_order, output,
                    mpc, exit_kind, producer, aclose_calls >>

\* ------------------------------------------------- multiplexer: properties
\* the output without its heartbeat lines
NonHeartbeat(out) == SelectSeq(out, LAMBDA e : e # HeartbeatLine)
\* the number of heartbeat lines of the output
HeartbeatsIn(out) == Len(SelectSeq(out, LAMBDA e : e = HeartbeatLine))
\* the adapter's events up to and including its terminal data: [DONE] event
UpToTerminalDone(evs) ==
    IF \E i \in DOMAIN evs : evs[i] = DoneEvent
    THEN SubSeq(evs, 1, CHOOSE i \in DOMAIN evs :
                           evs[i] = DoneEvent /\ \A j \in 1..(i - 1) : evs[j] # DoneEvent)
    ELSE evs
\* fetch_response_stream is over
Terminal == { "returned", "raised", "closed", "cancelled" }
\* the adapter's first __anext__ has not completed yet
Silent == response_result = << >>
\* the client has neither closed the stream nor been cancelled
Listening == exit_kind \notin { "close", "cancel" }

\* C10 as claimed: for an adapter stream that ends with its data: [DONE] event,
\* when the multiplexer has ended normally its output without the heartbeat
\* lines is the adapter's event sequence up to and including that event.
C10_OutputIsAdapterSequence ==
    (mpc = "returned" /\ adapter # << >> /\ adapter[Len(adapter)] = DoneEvent)
        => NonHeartbeat(output) = UpToTerminalDone(adapter)

\* C11 as claimed: a streaming response of a known engine whose upstream
\* answered 2xx, sent plain text lines only and did not fail, once it is over
\* without the client having left, ends with the data: [DONE] line and holds
\* exactly one such line, whether or not the upstream sent its own terminator.
C11_EndsWithOneDone ==
    (/\ mpc \in { "returned", "raised" }
     /\ engine \in Engines
     /\ upstream.status = "2xx"
     /\ upstream.ending # "fault"
     /\ \A i \in DOMAIN upstream.body : upstream.body[i] = "text")
        => /\ output # << >>
           /\ output[Len(output)] = DoneEvent
           /\ Cardinality({ i \in DOMAIN output : output[i] = DoneEvent }) = 1

\* C12 as claimed: nothing is yielded after the adapter's data: [DONE] event,
\* and when the multiplexer has ended normally (not by the client leaving) the
\* last item it yielded is that event.
C12_StopsAtDoneEvent ==
    /\ \A i \in DOMAIN output : output[i] = DoneEvent => i = Len(output)
    /\ mpc = "returned" => (output # << >> /\ output[Len(output)] = DoneEvent)

\* C13 as claimed: when fetch_response_stream is over, on whatever path, no
\* waiter is left pending, send_heartbeat is cancelled, and the adapter stream
\* (when one was created) has had aclose called exactly once.
C13_CleanupOnEveryExit ==
    mpc \in Terminal =>
        /\ response_task # "pending"
        /\ heartbeat_task # "pending"
        /\ producer = "cancelled"
        /\ engine \in Engines => aclose_calls = 1

DetailLimit == 300
DefaultStatus == 500
NoDataStatus == 400

\* An item of the wrapped stream, by what the code asks of it:
\*   type         str, dict or bytes
\*   heartbeat    str(item) starts with ": uni-api-heartbeat"
\*   data         its text starts with "data:"
\*   done         its text, less the data: prefix, starts with "[DONE]"
\*   trigger      one of error_triggers occurs in it
\*   json         its text, less the data: prefix, decodes to a JSON object
\*   error        the error field of the object: absent, the empty template of
\*                utils.py 473, or set
\*   status_code  the status_code field of the object, 0 when absent
\*   details      the length of the text of its details field, 0 when absent
\*   size         the length of the text of the object itself
\*   content      choices[0].message.content: absent, empty or text
\*   bytes        the first bytes of a chunk of bytes, or of the encoding of a text
\*   utf8         its bytes decode as UTF-8
\*   id           which item of the stream it is
Blank ==
    [ type |-> "str", heartbeat |-> FALSE, data |-> FALSE, done |-> FALSE,
      trigger |-> FALSE, json |-> FALSE, error |-> "absent", status_code |-> 0,
      details |-> 0, size |-> 40, content |-> "absent", bytes |-> << >>, utf8 |-> TRUE,
      id |-> 0 ]
\* ": uni-api-heartbeat\n\n"
HeartbeatItem == [Blank EXCEPT !.heartbeat = TRUE]
\* 'data: {"choices": [{"delta": {"content": "Hi"}}]}\n\n'
DataItem == [Blank EXCEPT !.data = TRUE, !.json = TRUE]
\* "data: [DONE]\n\n"
DoneItem == [Blank EXCEPT !.data = TRUE, !.done = TRUE]
\* a data line in which an error trigger occurs
TriggerItem == [DataItem EXCEPT !.trigger = TRUE]
\* a data line that is no JSON
GarbledItem == [Blank EXCEPT !.data = TRUE]
\* 'data: {"error": {...}, "status_code": 429, "details": "d"}\n\n'
ErrorText == [DataItem EXCEPT !.error = "set", !.status_code = 429, !.details = 1]
\* the same, its message being one of the error triggers
ErrorTextTrigger == [ErrorText EXCEPT !.trigger = TRUE]
\* S6: what check_response makes of an upstream 500 with body {"error": "bad"}
ErrorDict ==
    [Blank EXCEPT !.type = "dict", !.json = TRUE, !.error = "set", !.status_code = 500,
                  !.details = 16]
\* an error object without status_code, its details 400 characters long
ErrorDictLong ==
    [Blank EXCEPT !.type = "dict", !.json = TRUE, !.error = "set", !.details = 400]
\* an error object without status_code and details, 350 characters long itself
ErrorDictBare ==
    [Blank EXCEPT !.type = "dict", !.json = TRUE, !.error = "set", !.size = 350]
\* a completion carrying the empty error template
TemplateDict ==
    [Blank EXCEPT !.type = "dict", !.json = TRUE, !.error = "template", !.content = "text"]
\* a non-streaming completion, with and without content
AnswerDict == [Blank EXCEPT !.type = "dict", !.json = TRUE, !.content = "text"]
EmptyAnswerDict == [Blank EXCEPT !.type = "dict", !.json = TRUE, !.content = "empty"]
\* a completion in which an error trigger occurs
TriggerDict == [AnswerDict EXCEPT !.trigger = TRUE]
\* utf-8 bytes of the texts the code looks for
ID3 == << 73, 68, 51 >>
OpusHead == << 79, 112, 117, 115, 72, 101, 97, 100 >>
ADIF == << 65, 68, 73, 70 >>
fLaC == << 102, 76, 97, 67 >>
RIFF == << 82, 73, 70, 70 >>
WAVE == << 87, 65, 86, 69 >>
\* the start of an AVI file, a RIFF container that is no audio
AVI == << 65, 86, 73, 32 >>
\* the four bytes of a RIFF header that give the size of the file
RiffSize == << 36, 8, 0, 0 >>
\* the first bytes of the audio files utils.py 412-428 tells apart
AudioHeads ==
    { << 255, 251 >>, << 255, 243 >>, ID3, OpusHead, ADIF, << 255, 241 >>, << 255, 249 >>,
      fLaC, RIFF \o RiffSize \o WAVE }
\* a first chunk of audio: binary data, no UTF-8
AudioChunk(head) == [Blank EXCEPT !.type = "bytes", !.bytes = head, !.utf8 = FALSE]
AudioItem == AudioChunk(ID3)
AudioItems == { AudioChunk(head) : head \in AudioHeads }
\* binary chunks that are no audio: an AVI file, a RIFF header cut short,
\* raw PCM samples
OtherBinaryItems ==
    { AudioChunk(RIFF \o RiffSize \o AVI), AudioChunk(RIFF \o RiffSize),
      AudioChunk(<< 255, 255 >>) }
\* JSON delivered as bytes: b'{"choices": ...}'
JsonBytes == [Blank EXCEPT !.type = "bytes", !.json = TRUE, !.bytes = << 123, 34 >>]
\* a text that starts like an audio file: "ID3 ..."
MagicText == [Blank EXCEPT !.bytes = ID3]

RealKinds ==
    { DataItem, DoneItem, TriggerItem, GarbledItem, ErrorText, ErrorTextTrigger, ErrorDict,
      ErrorDictLong, ErrorDictBare, TemplateDict, AnswerDict, EmptyAnswerDict, TriggerDict,
      JsonBytes, MagicText }
    \cup AudioItems \cup OtherBinaryItems
\* what follows the first real event of a stream
LaterKinds == { HeartbeatItem, DataItem, GarbledItem, DoneItem }

\* the streams handed to the wrapper: heartbeat lines, a first real event,
\* then further items; at most MaxStream items
Numbered(s) == [i \in DOMAIN s |-> [s[i] EXCEPT !.id = i]]
HeartbeatPrefix(h) == [i \in 1..h |-> HeartbeatItem]
InputStreams ==
    { Numbered(HeartbeatPrefix(h)) : h \in 0..MaxStream }
    \cup UNION { UNION { { Numbered(HeartbeatPrefix(h) \o <<k>> \o t) : k \in RealKinds, t \in [1..n -> LaterKinds] }
                         : n \in 0..(MaxStream - 1 - h) }
                 : h \in 0..(MaxStream - 1) }

\* engine and stream as the callers pass them: a chat engine streaming or not,
\* and an engine exempt from the completion checks (utils.py 478)
ExemptEngines == { "tts", "embedding", "dalle", "moderation", "whisper" }
WrapArgs ==
    { [engine |-> "gpt", stream |-> TRUE], [engine |-> "gpt", stream |-> FALSE],
      [engine |-> "tts", stream |-> FALSE] }

\* utils.py 402-410
EnsureString(it) ==
    IF it.type = "bytes" THEN [it EXCEPT !.type = "str"]
    ELSE IF it.type = "str" THEN it
    ELSE [it EXCEPT !.type = "str", !.data = TRUE]

MinNat(a, b) == IF a < b THEN a ELSE b

\* bytes.startswith(prefix), and the slice b[8:12]
StartsWith(b, prefix) == Len(b) >= Len(prefix) /\ SubSeq(b, 1, Len(prefix)) = prefix
Slice8To12(b) == SubSeq(b, 9, MinNat(12, Len(b)))
\* utils.py 412-428
IdentifyAudioFormat_AnyRiff(file_bytes) ==
    IF StartsWith(file_bytes, << 255, 251 >>) \/ StartsWith(file_bytes, << 255, 243 >>)
    THEN "MP3"
    ELSE IF StartsWith(file_bytes, ID3) THEN "MP3 with ID3"
    ELSE IF StartsWith(file_bytes, OpusHead) THEN "OPUS"
    ELSE IF StartsWith(file_bytes, ADIF) THEN "AAC (ADIF)"
    ELSE IF StartsWith(file_bytes, << 255, 241 >>) \/ StartsWith(file_bytes, << 255, 249 >>)
    THEN "AAC (ADTS)"
    ELSE IF StartsWith(file_bytes, fLaC) THEN "FLAC"
    ELSE IF StartsWith(file_bytes, RIFF) THEN "WAV"
    ELSE "Unknown/PCM"
IdentifyAudioFormat(file_bytes) ==
    IF StartsWith(file_bytes, << 255, 251 >>) \/ StartsWith(file_bytes, << 255, 243 >>)
    THEN "MP3"
    ELSE IF StartsWith(file_bytes, ID3) THEN "MP3 with ID3"
    ELSE IF StartsWith(file_bytes, OpusHead) THEN "OPUS"
    ELSE IF StartsWith(file_bytes, ADIF) THEN "AAC (ADIF)"
    ELSE IF StartsWith(file_bytes, << 255, 241 >>) \/ StartsWith(file_bytes, << 255, 249 >>)
    THEN "AAC (ADTS)"
    ELSE IF StartsWith(file_bytes, fLaC) THEN "FLAC"
    ELSE IF StartsWith(file_bytes, RIFF) /\ Slice8To12(file_bytes) = WAVE THEN "WAV"
    ELSE "Unknown/PCM"
\* utils.py 447
AudioFormats == { "MP3", "MP3 with ID3", "OPUS", "AAC (ADIF)", "AAC (ADTS)", "FLAC", "WAV" }

\* utils.py 432-486: what check_response_content does with the item
Pass == [kind |-> "pass", status |-> 0, detail |-> 0]
Audio == [kind |-> "audio", status |-> 0, detail |-> 0]
\* utils.py 449: bytes.decode("utf-8") of bytes that are no UTF-8
UnicodeDecodeError == [kind |-> "UnicodeDecodeError", status |-> 0, detail |-> 0]
Stop == [kind |-> "StopAsyncIteration", status |-> 0, detail |-> 0]
Http_Untruncated(it) ==
    [ kind |-> "HTTPException",
      status |-> IF it.status_code = 0 THEN DefaultStatus ELSE it.status_code,
      detail |-> IF it.details = 0 THEN it.size ELSE it.details ]
Http(it) ==
    [ kind |-> "HTTPException",
      status |-> IF it.status_code = 0 THEN DefaultStatus ELSE it.status_code,
      detail |-> MinNat(IF it.details = 0 THEN it.size ELSE it.details, DetailLimit) ]
CheckObject(it, eng, st) ==
    IF it.error = "set" THEN Http(it)
    ELSE IF eng \notin ExemptEngines /\ st = FALSE
         THEN IF it.trigger \/ it.content # "text" THEN Stop ELSE Pass
         ELSE Pass
CheckResponseContent(it, eng, st) ==
    IF it.type = "bytes" /\ IdentifyAudioFormat(it.bytes) \in AudioFormats THEN Audio
    ELSE IF it.type = "bytes" /\ ~it.utf8 THEN UnicodeDecodeError
    ELSE IF it.type = "dict" THEN CheckObject(it, eng, st)
    ELSE IF it.done THEN Stop
    ELSE IF it.trigger THEN Stop
    ELSE IF ~it.json THEN (IF it.heartbeat THEN Pass ELSE Stop)
    ELSE CheckObject(it, eng, st)

NoException == [kind |-> "none", status |-> 0, detail |-> 0]
\* utils.py 537
NoDataReturned == [kind |-> "HTTPException", status |-> NoDataStatus, detail |-> 35]
\* an async generator that raises StopAsyncIteration ends with RuntimeError
RuntimeError == [kind |-> "RuntimeError", status |-> 0, detail |-> 0]
CancelledError == [kind |-> "CancelledError", status |-> 0, detail |-> 0]
\* what the wrapped stream itself raised
StreamError == [kind |-> "Exception", status |-> 0, detail |-> 0]

\* the first component of what error_handling_wrapper returns: nothing yet,
\* a generator (512, 534) or the checked content itself (517)
NothingReturned == [kind |-> "nothing", content |-> Blank]
NewGenerator == [kind |-> "new_generator", content |-> Blank]
CheckedContent(it) == [kind |-> "checked_content", content |-> it]
\* the clock readings at which a request may start
StartTimes == { 0, 1 }

WrapQuiet ==
    /\ generator = << >>
    /\ generator_end = "stop"
    /\ wrap_args = [engine |-> "gpt", stream |-> TRUE]
    /\ consumed = 0
    /\ first_real_response = 0
    /\ wpc = "off"
    /\ yielded = << >>
    /\ inspected = << >>
    /\ raised = NoException
    /\ cancelled = FALSE
    /\ is_audio = << >>
    /\ returned = NothingReturned
    /\ wall = 0
    /\ start_time = 0
    /\ first_response_time = << >>
    /\ first_real_time = << >>

\* utils.py 488-489: error_handling_wrapper is called
WrapInit ==
    /\ generator \in InputStreams
    /\ generator_end \in { "stop", "error" }
    /\ wrap_args \in WrapArgs
    /\ consumed = 0
    /\ first_real_response = 0
    /\ wpc = "call"
    /\ yielded = << >>
    /\ inspected = << >>
    /\ raised = NoException
    /\ cancelled = FALSE
    /\ is_audio = << >>
    /\ returned = NothingReturned
    /\ wall \in StartTimes
    /\ start_time = wall
    /\ first_response_time = << >>
    /\ first_real_time = << >>

Check(i) == CheckResponseContent(generator[i], wrap_args.engine, wrap_args.stream)

\* utils.py 492-534: the first item arrives; a heartbeat line makes the
\* wrapper return the generator of 497-510, anything else is inspected
WrapFirst ==
    /\ wpc = "call"
    /\ consumed < Len(generator)
    /\ consumed' = 1
    /\ first_response_time' = << wall - start_time >>
    /\ IF generator[1].heartbeat
       THEN /\ wpc' = "h_start"
            /\ returned' = NewGenerator
            /\ UNCHANGED << inspected, raised, is_audio, first_real_time >>
       ELSE /\ inspected' = Append(inspected, 1)
            /\ first_real_time' = << wall >>
            /\ CASE Check(1).kind = "audio" ->
                      /\ wpc' = "returned_audio" /\ raised' = raised
                      /\ is_audio' = << TRUE >>
                      /\ returned' = CheckedContent(generator[1])
                 [] Check(1).kind = "pass" ->
                      /\ wpc' = "r_start" /\ raised' = raised
                      /\ is_audio' = << FALSE >>
                      /\ returned' = NewGenerator
                 [] Check(1).kind = "StopAsyncIteration" ->
                      /\ wpc' = "raised" /\ raised' = NoDataReturned
                      /\ UNCHANGED << is_audio, returned >>
                 [] OTHER ->
                      /\ wpc' = "raised" /\ raised' = Check(1)
                      /\ UNCHANGED << is_audio, returned >>
    /\ UNCHANGED << poolVars, muxVars, emitVars, adaptVars, generator, generator_end, wrap_args,
                    first_real_response, yielded, cancelled, start_time, wall >>

\* utils.py 492, 536-537: the stream is over before its first item
WrapFirstEnd ==
    /\ wpc = "call"
    /\ consumed = Len(generator)
    /\ wpc' = "raised"
    /\ raised' = IF generator_end = "stop" THEN NoDataReturned ELSE StreamError
    /\ UNCHANGED << poolVars, muxVars, emitVars, adaptVars, generator, generator_end, wrap_args, consumed,
                    first_real_response, yielded, inspected, cancelled, wrapCall, wall >>

\* utils.py 498, 521: the consumer asks for the first item of the returned
\* generator, which yields first_item
YieldFirst_Raw ==
    /\ wpc \in { "h_start", "r_start" }
    /\ yielded' = Append(yielded, generator[1])
    /\ wpc' = IF wpc = "h_start" THEN "h_yield" ELSE "r_yield"
    /\ UNCHANGED << poolVars, muxVars, emitVars, adaptVars, generator, generator_end, wrap_args, consumed,
                    first_real_response, inspected, raised, cancelled, wrapCall, wall >>
YieldFirst ==
    /\ wpc \in { "h_start", "r_start" }
    /\ yielded' = Append(yielded, IF wpc = "h_start" THEN generator[1]
                                  ELSE EnsureString(generator[1]))
    /\ wpc' = IF wpc = "h_start" THEN "h_yield" ELSE "r_yield"
    /\ UNCHANGED << poolVars, muxVars, emitVars, adaptVars, generator, generator_end, wrap_args, consumed,
                    first_real_response, inspected, raised, cancelled, wrapCall, wall >>

\* utils.py 500, 523: the consumer asks for the next item; the generator
\* waits for the wrapped stream
Pull ==
    /\ wpc \in { "h_yield", "r_yield" }
    /\ wpc' = IF wpc = "h_yield" THEN "h_await" ELSE "r_await"
    /\ UNCHANGED << poolVars, muxVars, emitVars, adaptVars, generator, generator_end, wrap_args, consumed,
                    first_real_response, yielded, inspected, raised, cancelled, wrapCall, wall >>

\* utils.py 500-510: an item arrives in the generator returned after a heartbeat
HeartbeatPathItem_InspectAll ==
    /\ wpc = "h_await"
    /\ consumed < Len(generator)
    /\ consumed' = consumed + 1
    /\ IF ~generator[consumed'].heartbeat
       THEN /\ first_real_response' = consumed'
            /\ inspected' = Append(inspected, consumed')
            /\ first_real_time' = IF first_real_time = << >> THEN << wall >>
                                  ELSE first_real_time
            /\ CASE Check(consumed').kind = "audio" ->
                      /\ yielded' = Append(yielded, generator[consumed'])
                      /\ wpc' = "h_yield" /\ raised' = raised
                      /\ is_audio' = << TRUE >>
                 [] Check(consumed').kind = "pass" ->
                      /\ yielded' = Append(yielded, EnsureString(generator[consumed']))
                      /\ wpc' = "h_yield" /\ raised' = raised
                      /\ is_audio' = << FALSE >>
                 [] Check(consumed').kind = "StopAsyncIteration" ->
                      /\ wpc' = "failed" /\ raised' = RuntimeError
                      /\ UNCHANGED << yielded, is_audio >>
                 [] OTHER ->
                      /\ wpc' = "failed" /\ raised' = Check(consumed')
                      /\ UNCHANGED << yielded, is_audio >>
       ELSE /\ yielded' = Append(yielded, EnsureString(generator[consumed']))
            /\ wpc' = "h_yield"
            /\ UNCHANGED << first_real_response, inspected, raised, is_audio,
                            first_real_time >>
    /\ UNCHANGED << poolVars, muxVars, emitVars, adaptVars, generator, generator_end, wrap_args, cancelled,
                    returned, start_time, first_response_time, wall >>
HeartbeatPathItem ==
    /\ wpc = "h_await"
    /\ consumed < Len(generator)
    /\ consumed' = consumed + 1
    /\ IF first_real_response = 0 /\ ~generator[consumed'].heartbeat
       THEN /\ first_real_response' = consumed'
            /\ inspected' = Append(inspected, consumed')
            /\ first_real_time' = IF first_real_time = << >> THEN << wall >>
                                  ELSE first_real_time
            /\ CASE Check(consumed').kind = "audio" ->
                      /\ yielded' = Append(yielded, generator[consumed'])
                      /\ wpc' = "h_yield" /\ raised' = raised
                      /\ is_audio' = << TRUE >>
                 [] Check(consumed').kind = "pass" ->
                      /\ yielded' = Append(yielded, EnsureString(generator[consumed']))
                      /\ wpc' = "h_yield" /\ raised' = raised
                      /\ is_audio' = << FALSE >>
                 [] Check(consumed').kind = "StopAsyncIteration" ->
                      /\ wpc' = "failed" /\ raised' = RuntimeError
                      /\ UNCHANGED << yielded, is_audio >>
                 [] OTHER ->
                      /\ wpc' = "failed" /\ raised' = Check(consumed')
                      /\ UNCHANGED << yielded, is_audio >>
       ELSE /\ yielded' = Append(yielded, EnsureString(generator[consumed']))
            /\ wpc' = "h_yield"
            /\ UNCHANGED << first_real_response, inspected, raised, is_audio,
                            first_real_time >>
    /\ UNCHANGED << poolVars, muxVars, emitVars, adaptVars, generator, generator_end, wrap_args, cancelled,
                    returned, start_time, first_response_time, wall >>

\* utils.py 523-524: an item arrives in the generator returned after a real event
RealPathItem ==
    /\ wpc = "r_await"
    /\ consumed < Len(generator)
    /\ consumed' = consumed + 1
    /\ yielded' = Append(yielded, EnsureString(generator[consumed']))
    /\ wpc' = "r_yield"
    /\ UNCHANGED << poolVars, muxVars, emitVars, adaptVars, generator, generator_end, wrap_args,
                    first_real_response, inspected, raised, cancelled, wrapCall, wall >>

\* utils.py 500, 523, 529-532: the wrapped stream is over, or raises
StreamEnd ==
    /\ wpc \in { "h_await", "r_await" }
    /\ consumed = Len(generator)
    /\ IF generator_end = "stop"
       THEN wpc' = "ended" /\ raised' = raised
       ELSE wpc' = "failed" /\ raised' = StreamError
    /\ UNCHANGED << poolVars, muxVars, emitVars, adaptVars, generator, generator_end, wrap_args, consumed,
                    first_real_response, yielded, inspected, cancelled, wrapCall, wall >>

\* utils.py 492, 500, 523-528: the consumer's task is cancelled while the
\* wrapper or its generator waits for the wrapped stream; only the generator
\* of 520-532 catches CancelledError
WrapCancel ==
    /\ wpc \in { "call", "h_await", "r_await" }
    /\ cancelled' = TRUE
    /\ CASE wpc = "r_await" -> wpc' = "ended" /\ raised' = raised
         [] wpc = "h_await" -> wpc' = "failed" /\ raised' = CancelledError
         [] OTHER -> wpc' = "raised" /\ raised' = CancelledError
    /\ UNCHANGED << poolVars, muxVars, emitVars, adaptVars, generator, generator_end, wrap_args, consumed,
                    first_real_response, yielded, inspected, wrapCall, wall >>

\* utils.py 489, 493: a second passes on the clock time_module.time() reads,
\* while the wrapper or its generator waits for the wrapped stream
WrapSecondPasses ==
    /\ wpc \in { "call", "h_await", "r_await" }
    /\ wall < start_time + MaxWait
    /\ wall' = wall + 1
    /\ UNCHANGED << poolVars, muxVars, emitVars, adaptVars, generator, generator_end, wrap_args, consumed,
                    first_real_response, wpc, yielded, inspected, raised, cancelled,
                    wrapCall >>

\* the consumer closes the generator suspended at a yield: GeneratorExit,
\* which neither generator catches
WrapClose ==
    /\ wpc \in { "h_yield", "r_yield" }
    /\ wpc' = "closed"
    /\ UNCHANGED << poolVars, muxVars, emitVars, adaptVars, generator, generator_end, wrap_args, consumed,
                    first_real_response, yielded, inspected, raised, cancelled, wrapCall, wall >>

\* ----------------------------------------------------- wrapper: properties
\* the first item of the stream that is no heartbeat line, 0 when there is none
FirstReal ==
    IF \E i \in DOMAIN generator : ~generator[i].heartbeat
    THEN CHOOSE i \in DOMAIN generator :
             ~generator[i].heartbeat /\ \A j \in 1..(i - 1) : generator[j].heartbeat
    ELSE 0
\* the first item pulled was a heartbeat line
HeartbeatFirst == consumed >= 1 /\ generator[1].heartbeat
\* the first real event has been pulled
SeenFirstReal == FirstReal # 0 /\ consumed >= FirstReal
\* an item that decodes to an object with an error field that is set
ErrorObject(it) == (it.type = "dict" \/ (it.json /\ ~it.done)) /\ it.error = "set"
\* the HTTP error such an object calls for: its status_code or 500, its
\* details (or its own text) cut to 300 characters
ExpectedHttp(it) ==
    [ kind |-> "HTTPException",
      status |-> IF it.status_code = 0 THEN 500 ELSE it.status_code,
      detail |-> IF it.details = 0
                 THEN (IF it.size > 300 THEN 300 ELSE it.size)
                 ELSE (IF it.details > 300 THEN 300 ELSE it.details) ]
\* some data: line has been yielded
DataLineYielded == \E i \in DOMAIN yielded : yielded[i].data

\* C15: when the first item pulled is a heartbeat line it is yielded as it is,
\* once the first real event has been pulled exactly that event has been
\* inspected, and no other item ever is.
C15_InspectsFirstRealOnly ==
    HeartbeatFirst =>
        /\ yielded # << >> => yielded[1] = generator[1]
        /\ inspected = IF SeenFirstReal THEN <<FirstReal>> ELSE << >>

\* a heartbeat line, a real event and a later real event that would not
\* pass inspection have all been yielded
C15_Witness ==
    /\ HeartbeatFirst
    /\ wpc = "ended"
    /\ Len(generator) = 3
    /\ FirstReal = 2
    /\ ~generator[3].heartbeat
    /\ Check(3).kind = "StopAsyncIteration"
    /\ Len(yielded) = 3

C17_AbortStatusUpstreamOr500 ==
    (wpc = "raised" /\ consumed = 1 /\ Check(1).kind = "StopAsyncIteration")
        => /\ raised.kind = "HTTPException"
           /\ raised.status = (IF generator[1].status_code = 0 THEN DefaultStatus
                               ELSE generator[1].status_code)

\* C18 as claimed: once an item has been yielded, nothing the wrapper finds
\* in a stream that itself ends normally is raised to the consumer.
C18_SilentAfterFirstItem ==
    (yielded # << >> /\ generator_end = "stop" /\ ~cancelled)
        => raised = NoException

\* C19 as claimed: when the consumer's task is cancelled while the returned
\* generator waits for the wrapped stream, the generator ends without raising.
C19_CancellationSwallowed ==
    (cancelled /\ yielded # << >>) => (wpc = "ended" /\ raised = NoException)

\* the stream passes inspection and is no audio
PassesInspection == FirstReal = 0 \/ Check(FirstReal).kind = "pass"

\* C20: for a stream that passes inspection and is no audio, the items yielded
\* are the items pulled, each string-encoded, in their order; while the
\* generator is suspended at a yield every item pulled has been yielded, and
\* when it has ended without cancellation every item of the stream has been.
C20_YieldsInputItemForItem ==
    PassesInspection =>
        /\ Len(yielded) <= consumed
        /\ \A i \in DOMAIN yielded : yielded[i] = EnsureString(generator[i])
        /\ wpc \in { "h_yield", "r_yield" } => Len(yielded) = consumed
        /\ (wpc = "ended" /\ ~cancelled) => Len(yielded) = Len(generator)

\* an object was the first real event after a heartbeat line and the whole
\* stream has been yielded
C20_Witness ==
    /\ wpc = "ended"
    /\ ~cancelled
    /\ Len(generator) = 3
    /\ generator[1].heartbeat
    /\ generator[2].type = "dict"
    /\ Len(yielded) = 3
    /\ yielded[2].type = "str"

\* the magic numbers the specification lists: MP3 FF FB / FF F3, ID3, OpusHead,
\* ADIF, AAC ADTS FF F1 / FF F9, fLaC, RIFF....WAVE
MatchesListedMagic(b) ==
    \/ \E head \in { << 255, 251 >>, << 255, 243 >>, ID3, OpusHead, ADIF, << 255, 241 >>,
                     << 255, 249 >>, fLaC } : StartsWith(b, head)
    \/ StartsWith(b, RIFF) /\ Len(b) >= 12 /\ SubSeq(b, 9, 12) = WAVE
\* what inspection refuses: a text that is [DONE], holds an error trigger or
\* is no JSON, and an object with an error field
Refused(it) ==
    \/ it.type # "dict" /\ (it.done \/ it.trigger \/ ~it.json)
    \/ it.json /\ it.error = "set"
\* item i of the stream has been handed on
HandedOn(i) == Len(yielded) >= i
\* the exceptions inspection raises
InspectionErrors == { "HTTPException", "RuntimeError", "UnicodeDecodeError" }

\* C21: audio passthrough is activated exactly when the first item that is no
\* heartbeat line is a chunk of bytes starting with one of the listed magic
\* numbers; then the raw bytes are handed on uninspected (returned in place of
\* a generator, or yielded as they are after a heartbeat line), otherwise the
\* item is inspected: never handed on as bytes, and not handed on at all when
\* inspection refuses it
C21_AudioIffBinaryMagic ==
    SeenFirstReal =>
        LET it == generator[FirstReal]
            activated == is_audio = << TRUE >>
        IN  /\ activated <=> (it.type = "bytes" /\ MatchesListedMagic(it.bytes))
            /\ activated =>
                   /\ raised.kind \notin InspectionErrors
                   /\ IF HeartbeatFirst
                      THEN HandedOn(FirstReal) /\ yielded[FirstReal] = it
                      ELSE returned = CheckedContent(it) /\ wpc = "returned_audio"
            /\ ~activated =>
                   /\ \E k \in DOMAIN inspected : inspected[k] = FirstReal
                   /\ returned.kind # "checked_content"
                   /\ HandedOn(FirstReal) => yielded[FirstReal].type = "str"
                   /\ Refused(it) => ~HandedOn(FirstReal) /\ raised # NoException

\* a WAV chunk after a heartbeat line was yielded as the bytes it is
C21_Witness ==
    /\ HeartbeatFirst
    /\ SeenFirstReal
    /\ is_audio = << TRUE >>
    /\ generator[FirstReal].bytes = RIFF \o RiffSize \o WAVE
    /\ HandedOn(FirstReal)
    /\ yielded[FirstReal].type = "bytes"

\* C22 as claimed: the time error_handling_wrapper returns is the time from
\* the start of the request to the arrival of the first item that is no
\* heartbeat line; a heartbeat line arriving earlier does not end the measurement
C22_TimeToFirstRealEvent ==
    (first_response_time # << >> /\ first_real_time # << >>) =>
        first_response_time[1] = first_real_time[1] - start_time

\* ================================================================ event emitter
\* utils.py 714-751: generate_sse_response and the generator of module random

\* None where a text or a number may stand, and null where an object may stand
None == "None"
Null == [null |-> TRUE]
\* Python's truth of a text or None
Truthy(x) == x # None /\ x # ""

\* utils.py 718: k=29
IdLength == 29
\* utils.py 717-718: the state random.seed(a) leaves the generator in, the
\* string random.choices(string.ascii_letters + string.digits, k) draws in a
\* state, and the state after the draw. The string is determined by the state
\* it is drawn in and differs from state to state.
Seeded(a) == [seed |-> a, drawn |-> 0]
Choices(state, k) == [alphabet |-> "ascii_letters + digits", k |-> k, from |-> state]
AfterChoices(state) == [state EXCEPT !.drawn = 1]
\* random.seed(None) seeds from the operating system: what it may give
Urandom == { "urandom1", "urandom2" }
SeedOf(a, urandom) == IF a = None THEN urandom ELSE a
\* utils.py 720: f"chatcmpl-{random_str}"
ChatId(chars) == << "chatcmpl-", chars >>

\* utils.py 716-746: sample_data as json.dumps writes it, for a generator
\* that line 717 has left in state `seeded`
GenerateSseResponse(seeded, timestamp, model_name, content, tools_id, function_call_name, function_call_content, role, total_tokens, prompt_tokens, completion_tokens) ==
    LET delta0 == IF Truthy(content) THEN [content |-> content] ELSE << >>
        delta1 == IF Truthy(function_call_content)
                  THEN [tool_calls |->
                          << [index |-> 0,
                              function |-> [arguments |-> function_call_content]] >>]
                  ELSE delta0
        delta2 == IF Truthy(tools_id) /\ Truthy(function_call_name)
                  THEN [tool_calls |->
                          << [index |-> 0, id |-> tools_id, type |-> "function",
                              function |-> [name |-> function_call_name,
                                            arguments |-> ""]] >>]
                  ELSE delta1
        delta3 == IF Truthy(role) THEN [role |-> role, content |-> ""] ELSE delta2
        choices == << [index |-> 0, delta |-> delta3, logprobs |-> None,
                       finish_reason |-> IF Truthy(content) THEN None ELSE "stop"] >>
    IN  [ id |-> ChatId(Choices(seeded, IdLength)),
          object |-> "chat.completion.chunk",
          created |-> timestamp,
          model |-> model_name,
          choices |-> IF total_tokens # 0 THEN << >> ELSE choices,
          usage |-> IF total_tokens # 0
                    THEN [prompt_tokens |-> prompt_tokens,
                          completion_tokens |-> completion_tokens,
                          total_tokens |-> prompt_tokens + completion_tokens]
                    ELSE Null,
          system_fingerprint |-> "fp_d576307f90" ]
\* utils.py 749: f"data: {json_data}" + end_of_line
SseResponse(sample_data) == [line |-> "data: ", json |-> sample_data, end |-> EndOfLine]

\* the arguments the callers pass: a whole-second timestamp, a text or
\* nothing for each of the text arguments, token counts up to MaxTokens
Timestamps == { "1700000001", "1700000002" }
EmitArgs ==
    [ timestamp : Timestamps, model : { "m" }, content : { None, "", "Hi" },
      tools_id : { None, "t1" }, function_call_name : { None, "f" },
      function_call_content : { None, "{}" }, role : { None, "assistant" },
      total_tokens : 0..MaxTokens, prompt_tokens : 0..MaxTokens,
      completion_tokens : 0..MaxTokens ]
NoArgs ==
    [ timestamp |-> None, model |-> None, content |-> None, tools_id |-> None,
      function_call_name |-> None, function_call_content |-> None, role |-> None,
      total_tokens |-> 0, prompt_tokens |-> 0, completion_tokens |-> 0 ]

EmitQuiet ==
    /\ random_state = Seeded(None)
    /\ emit_args = NoArgs
    /\ sse_response = << >>

\* a call of generate_sse_response is about to run; the shared generator is
\* in whatever state earlier requests left it
EmitInit ==
    /\ random_state \in { Seeded(t) : t \in Timestamps } \cup { AfterChoices(Seeded(t)) : t \in Timestamps }
    /\ emit_args \in EmitArgs
    /\ sse_response = << >>

\* utils.py 716-751: the call runs from its first line to its return; it has no await
\* inside, so nothing runs in between
CallGenerateSseResponse ==
    /\ sse_response = << >>
    /\ emit_args # NoArgs
    /\ LET a == emit_args
       IN  sse_response' =
               << SseResponse(GenerateSseResponse(Seeded(a.timestamp), a.timestamp, a.model,
                      a.content, a.tools_id, a.function_call_name, a.function_call_content,
                      a.role, a.total_tokens, a.prompt_tokens, a.completion_tokens)) >>
    /\ random_state' = AfterChoices(Seeded(emit_args.timestamp))
    /\ UNCHANGED << poolVars, muxVars, wrapVars, adaptVars, emit_args >>

\* another request, running before or after the call, seeds the shared
\* generator with its own timestamp (utils.py 717, response.py 142)
OtherRequestSeeds ==
    /\ emit_args # NoArgs \/ apc \in { "created", "lines", "after_lines", "last_yield" }
    /\ \E t \in Timestamps :
           /\ random_state # Seeded(t)
           /\ random_state' = Seeded(t)
    /\ UNCHANGED << poolVars, muxVars, wrapVars, adaptVars, emit_args, sse_response >>

\* ================================================================ adapters
\* response.py 13-374, 416-431: check_response, the streaming adapters,
\* fetch_response and the dispatch of fetch_response_stream

\* An upstream line, by what the adapters ask of it:
\*   prefix   how it starts: "data: ", ": " (a comment), "event: " or ""
\*   payload  what follows: "" (nothing), "[DONE]", "json" (a JSON object),
\*            "malformed" (a JSON object cut short) or "fragment" (a line of
\*            pretty-printed JSON, no JSON by itself)
\*   json     the object of a "json" line, the fields the adapters read
BlankLine == [prefix |-> "", payload |-> "", json |-> Null]
\* ": OPENROUTER PROCESSING"
CommentLine == [prefix |-> ": ", payload |-> "fragment", json |-> Null]
\* "event: content_block_delta"
EventLine == [prefix |-> "event: ", payload |-> "fragment", json |-> Null]
\* "data: [DONE]"
DoneLine == [prefix |-> "data: ", payload |-> "[DONE]", json |-> Null]
\* 'data: {"choices": [{"delta": {"conte'
MalformedData == [prefix |-> "data: ", payload |-> "malformed", json |-> Null]
\* '{"event_type": "text-gener'
MalformedBare == [prefix |-> "", payload |-> "malformed", json |-> Null]
DataLine(obj) == [prefix |-> "data: ", payload |-> "json", json |-> obj]
BareLine(obj) == [prefix |-> "", payload |-> "json", json |-> obj]

\* OpenAI-style objects: a streaming chunk and a whole completion, with the
\* created time the upstream gives them (None when it gives none)
ChunkObject(created) ==
    [ id |-> "chatcmpl-upstream", object |-> "chat.completion.chunk", created |-> created,
      model |-> "m", message_content |-> None, delta_content |-> "Hi" ]
CompletionObject(created) ==
    [ id |-> "chatcmpl-upstream", object |-> "chat.completion", created |-> created,
      model |-> "m", message_content |-> "Hello", delta_content |-> None ]
UpstreamCreated == Timestamps \cup { None }
OpenAILines(created) ==
    { BlankLine, CommentLine, DoneLine, MalformedData, DataLine(ChunkObject(created)),
      DataLine(CompletionObject(created)) }

\* Claude events (response.py 266-306): message.role, message.usage.input_tokens,
\* usage.output_tokens, content_block, delta
ClaudeObject ==
    [ message_role |-> None, message_usage |-> FALSE, input_tokens |-> 0, usage |-> FALSE,
      output_tokens |-> 0, content_block |-> None, tool_id |-> None, tool_name |-> None,
      delta |-> FALSE, delta_text |-> None, partial_json |-> None ]
MessageStart ==
    [ClaudeObject EXCEPT !.message_role = "assistant", !.message_usage = TRUE,
                         !.input_tokens = 1]
MessageDelta == [ClaudeObject EXCEPT !.delta = TRUE, !.usage = TRUE, !.output_tokens = 1]
ToolUseStart ==
    [ClaudeObject EXCEPT !.content_block = "tool_use", !.tool_id = "t1", !.tool_name = "f"]
TextDelta == [ClaudeObject EXCEPT !.delta = TRUE, !.delta_text = "Hi"]
InputJsonDelta == [ClaudeObject EXCEPT !.delta = TRUE, !.partial_json = "{}"]
ClaudeLines ==
    { EventLine, MalformedData, DataLine(MessageStart), DataLine(MessageDelta),
      DataLine(ToolUseStart), DataLine(TextDelta), DataLine(InputJsonDelta) }

\* Lines of pretty-printed JSON (response.py 48-78, 110-127), by the texts
\* the scan looks for:
\*   finish         "finishReason": "   occurs in the line
\*   text           "text": "           occurs in the line
\*   parses         "{" + line + "}" is JSON
\*   function_call  "functionCall": {   occurs in the line
\*   tool_use       "type": "tool_use"  occurs in the line
\*   bracket        ]                   occurs in the line
\*   name           which line it is
Fragment ==
    [ prefix |-> "", payload |-> "fragment", json |-> Null, finish |-> FALSE,
      text |-> FALSE, parses |-> FALSE, function_call |-> FALSE, tool_use |-> FALSE,
      bracket |-> FALSE, name |-> "{" ]
\* '            "text": "Hi"'
TextFragment == [Fragment EXCEPT !.text = TRUE, !.parses = TRUE, !.name = "text"]
\* '            "text": "Hi'
TextFragmentCut == [Fragment EXCEPT !.text = TRUE, !.name = "text cut short"]
\* '        "finishReason": "STOP",'
FinishFragment == [Fragment EXCEPT !.finish = TRUE, !.name = "finishReason"]
\* '          "functionCall": {'
FunctionCallFragment == [Fragment EXCEPT !.function_call = TRUE, !.name = "functionCall"]
\* '"name": "f", "args": {} } }'
FunctionBodyFragment == [Fragment EXCEPT !.name = "name, args"]
\* '      ],'
BracketFragment == [Fragment EXCEPT !.bracket = TRUE, !.name = "]"]
GeminiLines ==
    { TextFragment, TextFragmentCut, FinishFragment, FunctionCallFragment,
      FunctionBodyFragment, BracketFragment }
\* the lines that, after "{", make the object of a function call
FunctionCallText == << "functionCall", "name, args" >>
\* '      "type": "tool_use",'
ToolUseFragment == [Fragment EXCEPT !.tool_use = TRUE, !.name = "tool_use"]
VertexClaudeLines == { TextFragment, ToolUseFragment, BracketFragment }

\* Cloudflare: data: {"response": "Hi"}
CloudflareLines ==
    { BlankLine, DoneLine, MalformedData, DataLine([response |-> "Hi"]),
      DataLine([response |-> ""]) }
\* Cohere: one JSON object a line
CohereObject == [is_finished |-> FALSE, event_type |-> "stream-start", text |-> None]
CohereLines ==
    { BlankLine, MalformedBare, BareLine(CohereObject),
      BareLine([CohereObject EXCEPT !.event_type = "text-generation", !.text = "Hi"]),
      BareLine([CohereObject EXCEPT !.event_type = "stream-end", !.is_finished = TRUE]) }

\* the lines the upstream of an engine sends
LinesOf(e, created) ==
    CASE e \in { "gpt", "openrouter", "azure" } -> OpenAILines(created)
      [] e = "claude" -> ClaudeLines
      [] e \in { "gemini", "vertex-gemini" } -> GeminiLines
      [] e = "vertex-claude" -> VertexClaudeLines
      [] e = "cloudflare" -> CloudflareLines
      [] e = "cohere" -> CohereLines
      [] OTHER -> { BlankLine }
Bodies(e, created) ==
    UNION { [1..n -> LinesOf(e, created)] : n \in 0..MaxLines }
StatusCodes == { 200, 201, 429, 500 }
\* response.py 14
IsSuccess(status_code) == 200 <= status_code /\ status_code < 300

\* what the adapters yield
\* "data: [DONE]" + end_of_line
DoneSse == [line |-> "data: [DONE]", end |-> EndOfLine]
\* response.py 21
ErrorMessage(error_log, status_code) ==
    [ error |-> << error_log, " HTTP Error" >>, status_code |-> status_code,
      details |-> "error_json" ]
\* response.py 162, 168: the upstream's object with its id replaced
RawSse(obj, chars) ==
    [line |-> "data: ", json |-> [obj EXCEPT !.id = ChatId(chars)], end |-> EndOfLine]
\* fetch_response: the one item it yields for a 2xx answer (response.py 321-374)
ResponseJson == [response_json |-> "body"]

\* the locals of an adapter that outlive a line
AdapterLocals ==
    [ input_tokens |-> 0, revicing_function_call |-> FALSE, need_function_call |-> FALSE,
      function_full_response |-> << >>, is_finish |-> FALSE, sse_string |-> FALSE ]

\* What the body of the loop does with one line: the events it yields, how
\* it goes on (continue, return, break, or the exception it raises), its
\* locals, and the state generate_sse_response seeded the generator to, if it ran
Step(out, ctl, loc, seeded) == [out |-> out, ctl |-> ctl, loc |-> loc, seeded |-> seeded]
Skip(loc) == Step(<< >>, "continue", loc, << >>)
JSONDecodeError == "JSONDecodeError"

\* generate_sse_response as the adapters call it: seeded is the generator
\* after line 717
Sse(seeded, ts, content, tools_id, function_call_name, function_call_content, role, total_tokens, prompt_tokens, completion_tokens) ==
    SseResponse(GenerateSseResponse(seeded, ts, "m", content, tools_id, function_call_name,
                                    function_call_content, role, total_tokens,
                                    prompt_tokens, completion_tokens))
TextSse(seeded, ts, content) == Sse(seeded, ts, content, None, None, None, None, 0, 0, 0)

\* response.py 156-168: fetch_gpt_response_stream
GptLine(l, loc, chars, urandom) ==
    IF l = BlankLine \/ (l.prefix = "data: " /\ l.payload = "") \/ l.prefix = ": "
    THEN Skip(loc)
    ELSE IF l.payload = "[DONE]" THEN Step(<< DoneSse >>, "return", loc, << >>)
    ELSE IF l.payload # "json" \/ l.prefix # "data: " THEN Step(<< >>, JSONDecodeError, loc, << >>)
    ELSE IF Truthy(l.json.message_content)
    THEN Step(<< TextSse(Seeded(SeedOf(l.json.created, urandom)), l.json.created,
                         l.json.message_content) >>,
              "continue", loc, << Seeded(SeedOf(l.json.created, urandom)) >>)
    ELSE Step(<< RawSse(l.json, chars) >>, "continue", loc, << >>)

\* response.py 185-198: fetch_azure_response_stream
AzureLine(l, loc, ts) ==
    IF l = BlankLine \/ (l.prefix = "data: " /\ l.payload = "") \/ l.prefix = ": "
    THEN Skip(loc)
    ELSE IF l.payload = "[DONE]" THEN Step(<< DoneSse >>, "return", loc, << >>)
    ELSE IF l.payload # "json" \/ l.prefix # "data: " THEN Step(<< >>, JSONDecodeError, loc, << >>)
    ELSE LET no_stream_content == l.json.message_content
             stream_content == l.json.delta_content
             content == IF Truthy(no_stream_content) THEN no_stream_content
                        ELSE stream_content
             emits == Truthy(no_stream_content) \/ Truthy(stream_content) \/ loc.sse_string
             out == IF emits THEN << TextSse(Seeded(ts), ts, content) >> ELSE << >>
             loc1 == [loc EXCEPT !.sse_string = @ \/ emits]
             seeded == IF emits THEN << Seeded(ts) >> ELSE << >>
         IN  IF Truthy(no_stream_content)
             THEN Step(out \o << DoneSse >>, "return", loc1, seeded)
             ELSE Step(out, "continue", loc1, seeded)

\* response.py 214-223: fetch_cloudflare_response_stream
CloudflareLine(l, loc, ts) ==
    IF l.prefix # "data: " THEN Skip(loc)
    ELSE IF l.payload = "[DONE]" THEN Step(<< DoneSse >>, "return", loc, << >>)
    ELSE IF l.payload # "json" THEN Step(<< >>, JSONDecodeError, loc, << >>)
    ELSE IF Truthy(l.json.response)
    THEN Step(<< TextSse(Seeded(ts), ts, l.json.response) >>, "continue", loc, << Seeded(ts) >>)
    ELSE Skip(loc)

\* response.py 239-246: fetch_cohere_response_stream
CohereLine(l, loc, ts) ==
    IF l.payload # "json" \/ l.prefix # "" THEN Step(<< >>, JSONDecodeError, loc, << >>)
    ELSE IF l.json.is_finished THEN Step(<< DoneSse >>, "return", loc, << >>)
    ELSE IF l.json.event_type = "text-generation"
    THEN Step(<< TextSse(Seeded(ts), ts, l.json.text) >>, "continue", loc, << Seeded(ts) >>)
    ELSE Skip(loc)

\* response.py 264-306: fetch_claude_response_stream
ClaudeLine(l, loc, ts) ==
    IF l.prefix # "data: " THEN Skip(loc)
    ELSE IF l.payload # "json" THEN Step(<< >>, JSONDecodeError, loc, << >>)
    ELSE LET resp == l.json
             seeded == Seeded(ts)
             role_out == IF Truthy(resp.message_role)
                         THEN << Sse(seeded, ts, None, None, None, None, resp.message_role,
                                     0, 0, 0) >>
                         ELSE << >>
             input_tokens == IF resp.message_usage THEN resp.input_tokens
                             ELSE loc.input_tokens
             usage_out == IF resp.usage
                          THEN << Sse(seeded, ts, None, None, None, None, None,
                                      input_tokens + resp.output_tokens, input_tokens,
                                      resp.output_tokens) >>
                          ELSE << >>
             tool_out == IF resp.content_block = "tool_use" /\ resp.tool_name # None
                         THEN << Sse(seeded, ts, None, resp.tool_id, resp.tool_name, None,
                                     None, 0, 0, 0) >>
                         ELSE << >>
             text_out == IF resp.delta /\ resp.delta_text # None
                         THEN << TextSse(seeded, ts, resp.delta_text) >>
                         ELSE << >>
             json_out == IF resp.delta /\ resp.partial_json # None
                         THEN << Sse(seeded, ts, None, None, None, resp.partial_json, None,
                                     0, 0, 0) >>
                         ELSE << >>
             out == role_out \o usage_out \o tool_out \o text_out \o json_out
         IN  Step(out, "continue", [loc EXCEPT !.input_tokens = input_tokens],
                  IF out # << >> THEN << seeded >> ELSE << >>)

\* response.py 48-78: fetch_gemini_response_stream
GeminiLine(l, loc, ts) ==
    IF l.finish THEN Step(<< >>, "break", [loc EXCEPT !.is_finish = TRUE], << >>)
    ELSE LET out == IF l.text /\ l.parses THEN << TextSse(Seeded(ts), ts, "Hi") >>
                    ELSE << >>
             receiving == l.function_call \/ loc.revicing_function_call
             loc1 == IF ~receiving THEN loc
                     ELSE IF l.bracket
                     THEN [loc EXCEPT !.revicing_function_call = FALSE,
                                      !.need_function_call = TRUE]
                     ELSE [loc EXCEPT !.revicing_function_call = TRUE,
                                      !.need_function_call = TRUE,
                                      !.function_full_response = Append(@, l.name)]
         IN  Step(out, "continue", loc1, IF out # << >> THEN << Seeded(ts) >> ELSE << >>)

\* response.py 83-91: fetch_gemini_response_stream after the lines
GeminiEnd(loc, ts) ==
    IF ~loc.need_function_call THEN Step(<< DoneSse >>, "return", loc, << >>)
    ELSE IF loc.function_full_response # FunctionCallText
    THEN Step(<< >>, JSONDecodeError, loc, << >>)
    ELSE Step(<< Sse(Seeded(ts), ts, None, "chatcmpl-9inWv0yEtgn873CxMBzHeCeiHctTV", "f",
                     None, None, 0, 0, 0),
                 Sse(Seeded(ts), ts, None, "chatcmpl-9inWv0yEtgn873CxMBzHeCeiHctTV", None,
                     "{}", None, 0, 0, 0),
                 DoneSse >>,
              "return", loc, << Seeded(ts) >>)

\* response.py 416-431: the adapter fetch_response_stream creates for an engine
ResponseGen(e) ==
    CASE e \in { "gemini", "vertex-gemini" } -> "fetch_gemini_response_stream"
      [] e \in { "claude", "vertex-claude" } -> "fetch_claude_response_stream"
      [] e \in { "gpt", "openrouter" } -> "fetch_gpt_response_stream"
      [] e = "azure" -> "fetch_azure_response_stream"
      [] e = "cloudflare" -> "fetch_cloudflare_response_stream"
      [] e = "cohere" -> "fetch_cohere_response_stream"
      [] OTHER -> None

\* the label an adapter gives check_response (response.py 27, 145, 173, 203,
\* 228, 251, 316)
ErrorLog(gen) == IF gen = "fetch_cohere_response_stream" THEN "fetch_gpt_response_stream" ELSE gen

\* the line step of an adapter
LineStep(gen, l, loc, ts, chars, urandom) ==
    CASE gen = "fetch_gpt_response_stream" -> GptLine(l, loc, chars, urandom)
      [] gen = "fetch_azure_response_stream" -> AzureLine(l, loc, ts)
      [] gen = "fetch_cloudflare_response_stream" -> CloudflareLine(l, loc, ts)
      [] gen = "fetch_cohere_response_stream" -> CohereLine(l, loc, ts)
      [] gen = "fetch_claude_response_stream" -> ClaudeLine(l, loc, ts)
      [] OTHER -> GeminiLine(l, loc, ts)
\* what an adapter does when the body is over (response.py 83-91, 307)
EndStep(gen, loc, ts) ==
    CASE gen = "fetch_gemini_response_stream" -> GeminiEnd(loc, ts)
      [] gen = "fetch_claude_response_stream" -> Step(<< DoneSse >>, "return", loc, << >>)
      [] OTHER -> Step(<< >>, "return", loc, << >>)

\* ------------------------------------------------------------ the body as text
\* a line is two pieces of text (none for the empty line); "\n" ends a line
Newline == [newline |-> TRUE]
Piece(l, n) == [of |-> l, part |-> n]
Chars(l) == IF l = BlankLine THEN << >> ELSE << Piece(l, 1), Piece(l, 2) >>
RECURSIVE Text(_)
Text(ls) == IF ls = << >> THEN << >> ELSE Chars(Head(ls)) \o << Newline >> \o Text(Tail(ls))
\* the text of a body: its lines, the last one with or without its "\n"
BodyText(answer) ==
    IF answer.terminated \/ answer.lines = << >> THEN Text(answer.lines)
    ELSE SubSeq(Text(answer.lines), 1, Len(Text(answer.lines)) - 1)

\* response.py 45, 153, 182, 211, 236, 260: "\n" in buffer
HasNewline(b) == \E i \in DOMAIN b : b[i] = Newline
FirstNewline(b) == CHOOSE i \in DOMAIN b : b[i] = Newline /\ \A j \in 1..(i - 1) : b[j] # Newline
\* response.py 46, 154, 183, 212, 237, 261: line, buffer = buffer.split("\n", 1)
BeforeNewline(b) == SubSeq(b, 1, FirstNewline(b) - 1)
AfterNewline(b) == SubSeq(b, FirstNewline(b) + 1, Len(b))
\* the line a text is: a text that is only a part of a line parses as nothing
CutLine == [Fragment EXCEPT !.payload = "malformed", !.name = "cut"]
ReadLine(t) ==
    IF t = << >> THEN BlankLine
    ELSE IF Len(t) = 2 /\ t[1].part = 1 /\ t[2].part = 2 /\ t[1].of = t[2].of THEN t[1].of
    ELSE CutLine

AdaptQuiet ==
    /\ request_engine = UnknownEngine
    /\ called = None
    /\ request_time = None
    /\ response = [status_code |-> 200, lines |-> << >>, terminated |-> TRUE]
    /\ response_gen = None
    /\ posts = 0
    /\ request_timestamp = None
    /\ random_str = Null
    /\ line_no = 0
    /\ buffer = << >>
    /\ unsent = << >>
    /\ taken = << >>
    /\ joined = FALSE
    /\ adapter_locals = AdapterLocals
    /\ adapter_out = << >>
    /\ apc = "off"
    /\ adapter_raised = None

\* a request reaches fetch_response_stream or fetch_response
AdaptStart(via, e, t, answer) ==
    /\ request_engine = e
    /\ called = via
    /\ request_time = t
    /\ response = answer
    /\ response_gen = None
    /\ posts = 0
    /\ request_timestamp = None
    /\ random_str = Null
    /\ line_no = 0
    /\ buffer = << >>
    /\ unsent = BodyText(answer)
    /\ taken = << >>
    /\ joined = FALSE
    /\ adapter_locals = AdapterLocals
    /\ adapter_out = << >>
    /\ apc = "call"
    /\ adapter_raised = None

AdaptInit ==
    /\ random_state = Seeded(None)
    /\ emit_args = NoArgs
    /\ sse_response = << >>
    /\ \E t \in Timestamps :
         \/ \E e \in Engines, created \in UpstreamCreated :
              \E b \in Bodies(e, created) :
                /\ created = None \/ e \in { "gpt", "openrouter", "azure" }
                /\ AdaptStart("fetch_response_stream", e, t,
                              [status_code |-> 200, lines |-> b, terminated |-> TRUE])
         \/ \E e \in Engines \cup { UnknownEngine }, s \in StatusCodes,
               via \in { "fetch_response_stream", "fetch_response" } :
              \E b \in { << >> } \cup { << l >> : l \in LinesOf(e, None) } :
                AdaptStart(via, e, t, [status_code |-> s, lines |-> b, terminated |-> TRUE])

\* response.py 410-431: fetch_response_stream creates the adapter of the
\* engine, or raises ValueError
AdaptDispatch ==
    /\ apc = "call"
    /\ called = "fetch_response_stream"
    /\ response_gen' = ResponseGen(request_engine)
    /\ IF response_gen' = None
       THEN apc' = "raised" /\ adapter_raised' = "ValueError"
       ELSE apc' = "created" /\ adapter_raised' = adapter_raised
    /\ UNCHANGED << poolVars, muxVars, wrapVars, emitVars, request_engine, called,
                    request_time, response, posts, request_timestamp, random_str, line_no, frame,
                    adapter_locals, adapter_out >>

\* response.py 309: fetch_response is called
FetchResponseCall ==
    /\ apc = "call"
    /\ called = "fetch_response"
    /\ response_gen' = "fetch_response"
    /\ apc' = "created"
    /\ UNCHANGED << poolVars, muxVars, wrapVars, emitVars, request_engine, called,
                    request_time, response, posts, request_timestamp, random_str, line_no, frame,
                    adapter_locals, adapter_out, adapter_raised >>

\* response.py 25-30, 141-148, 310-319: the adapter runs up to its first
\* yield: it takes the time, sends its one request and checks the answer
AdapterRequest_ParseAfterError ==
    /\ apc = "created"
    /\ posts' = posts + 1
    /\ request_timestamp' = IF response_gen = "fetch_response" THEN request_timestamp
                            ELSE request_time
    /\ IF response_gen = "fetch_gpt_response_stream"
       THEN /\ random_str' = Choices(Seeded(request_time), IdLength)
            /\ random_state' = AfterChoices(Seeded(request_time))
       ELSE UNCHANGED << random_str, random_state >>
    /\ IF ~IsSuccess(response.status_code)
       THEN /\ adapter_out' =
                   Append(adapter_out,
                          ErrorMessage(ErrorLog(response_gen), response.status_code))
            /\ apc' = IF response_gen = "fetch_response" THEN "last_yield" ELSE "lines"
       ELSE IF response_gen = "fetch_response"
       THEN adapter_out' = Append(adapter_out, ResponseJson) /\ apc' = "last_yield"
       ELSE adapter_out' = adapter_out /\ apc' = "lines"
    /\ UNCHANGED << poolVars, muxVars, wrapVars, emit_args, sse_response, request_engine,
                    called, request_time, response, response_gen, line_no, frame, adapter_locals,
                    adapter_raised >>
AdapterRequest ==
    /\ apc = "created"
    /\ posts' = posts + 1
    /\ request_timestamp' = IF response_gen = "fetch_response" THEN request_timestamp
                            ELSE request_time
    /\ IF response_gen = "fetch_gpt_response_stream"
       THEN /\ random_str' = Choices(Seeded(request_time), IdLength)
            /\ random_state' = AfterChoices(Seeded(request_time))
       ELSE UNCHANGED << random_str, random_state >>
    /\ IF ~IsSuccess(response.status_code)
       THEN /\ adapter_out' =
                   Append(adapter_out,
                          ErrorMessage(ErrorLog(response_gen), response.status_code))
            /\ apc' = "last_yield"
       ELSE IF response_gen = "fetch_response"
       THEN adapter_out' = Append(adapter_out, ResponseJson) /\ apc' = "last_yield"
       ELSE adapter_out' = adapter_out /\ apc' = "lines"
    /\ UNCHANGED << poolVars, muxVars, wrapVars, emit_args, sse_response, request_engine,
                    called, request_time, response, response_gen, line_no, frame, adapter_locals,
                    adapter_raised >>

\* response.py 30, 148, 319, 374: resumed after its last yield, the adapter returns
AdapterReturn ==
    /\ apc = "last_yield"
    /\ apc' = "returned"
    /\ UNCHANGED << poolVars, muxVars, wrapVars, emitVars, request_engine, called,
                    request_time, response, response_gen, posts, request_timestamp, random_str,
                    line_no, frame, adapter_locals, adapter_out, adapter_raised >>

\* what becomes of the adapter after a step
AfterStep(ctl) ==
    CASE ctl = "continue" -> "lines"
      [] ctl = "break" -> "after_lines"
      [] ctl = "return" -> "returned"
      [] OTHER -> "raised"
Raised(ctl) == IF ctl \in { "continue", "break", "return" } THEN None ELSE ctl

\* response.py 42-43, 151-152, 180-181, 209-210, 234-235, 257-259: the upstream
\* sends the next k characters of the body and the adapter appends the chunk to
\* its buffer; it asks for a chunk when the buffer holds no line
ChunkArrives_DropsPartial(k) ==
    /\ apc = "lines"
    /\ ~HasNewline(buffer)
    /\ k \in 1..Len(unsent)
    /\ buffer' = SubSeq(unsent, 1, k)
    /\ joined' = (joined \/ buffer # << >>)
    /\ unsent' = SubSeq(unsent, k + 1, Len(unsent))
    /\ UNCHANGED << poolVars, muxVars, wrapVars, emitVars, request_engine, called,
                    request_time, response, response_gen, posts, request_timestamp, random_str,
                    line_no, taken, adapter_locals, adapter_out, apc, adapter_raised >>
ChunkArrives(k) ==
    /\ apc = "lines"
    /\ ~HasNewline(buffer)
    /\ k \in 1..Len(unsent)
    /\ buffer' = buffer \o SubSeq(unsent, 1, k)
    /\ joined' = (joined \/ buffer # << >>)
    /\ unsent' = SubSeq(unsent, k + 1, Len(unsent))
    /\ UNCHANGED << poolVars, muxVars, wrapVars, emitVars, request_engine, called,
                    request_time, response, response_gen, posts, request_timestamp, random_str,
                    line_no, taken, adapter_locals, adapter_out, apc, adapter_raised >>

\* an upstream that sends a line a chunk
LineArrives == \E k \in 1..Len(unsent) : k = FirstNewline(unsent) /\ ChunkArrives(k)
\* an upstream that cuts the body into chunks anywhere
AnyChunkArrives == \E k \in 1..Len(unsent) : ChunkArrives(k)

\* response.py 45-78, 153-168, 182-198, 211-223, 236-246, 260-306: the first
\* line of the buffer is split off and goes through the loop of the adapter
AdapterLine ==
    /\ apc = "lines"
    /\ HasNewline(buffer)
    /\ line_no' = line_no + 1
    /\ buffer' = AfterNewline(buffer)
    /\ taken' = Append(taken, ReadLine(BeforeNewline(buffer)))
    /\ \E urandom \in Urandom :
           LET st == LineStep(response_gen, ReadLine(BeforeNewline(buffer)), adapter_locals,
                              request_timestamp, random_str, urandom)
           IN  /\ adapter_out' = adapter_out \o st.out
               /\ adapter_locals' = st.loc
               /\ apc' = AfterStep(st.ctl)
               /\ adapter_raised' = Raised(st.ctl)
               /\ random_state' = IF st.seeded = << >> THEN random_state
                                   ELSE AfterChoices(st.seeded[1])
    /\ UNCHANGED << poolVars, muxVars, wrapVars, emit_args, sse_response, request_engine,
                    called, request_time, response, response_gen, posts, request_timestamp,
                    random_str, unsent, joined >>

\* response.py 80-91, 307: the body is over, or the gemini adapter has left
\* its loop at finishReason
AdapterEnd ==
    /\ \/ apc = "lines" /\ ~HasNewline(buffer) /\ unsent = << >>
       \/ apc = "after_lines"
    /\ LET st == EndStep(response_gen, adapter_locals, request_timestamp)
       IN  /\ adapter_out' = adapter_out \o st.out
           /\ apc' = AfterStep(st.ctl)
           /\ adapter_raised' = Raised(st.ctl)
           /\ random_state' = IF st.seeded = << >> THEN random_state
                               ELSE AfterChoices(st.seeded[1])
    /\ UNCHANGED << poolVars, muxVars, wrapVars, emit_args, sse_response, request_engine,
                    called, request_time, response, response_gen, posts, request_timestamp,
                    random_str, line_no, frame, adapter_locals >>

\* ----------------------------------------------------- adapters: properties
\* a line that is meant to be JSON and is none
Malformed(l) ==
    \/ l.payload = "malformed"
    \/ l.payload = "fragment" /\ l.prefix = "" /\ l.text /\ ~l.parses
\* the adapter has taken a malformed line from the body
SeenMalformed == \E i \in 1..line_no : Malformed(response.lines[i])

\* C23 as claimed: a malformed line never aborts the stream: the adapter
\* raises nothing on it, goes on to the lines after it, and ends as it does
\* without it
C23_MalformedLineSkipped ==
    SeenMalformed =>
        /\ adapter_raised = None
        /\ apc # "raised"
        /\ \A i \in 1..line_no :
               (Malformed(response.lines[i]) /\ i = line_no /\ i < Len(response.lines)) =>
                   apc \in { "lines", "after_lines" }

\* the events among what the adapter has yielded: the items that carry an object
Events == { i \in DOMAIN adapter_out : "json" \in DOMAIN adapter_out[i] }

\* C24 as claimed: every event of a request carries the chat id drawn from a
\* generator seeded with the timestamp of that request, chatcmpl- and 29
\* characters, and all events of the request carry one id and one created
\* time, whatever other requests do to the shared generator in between
C24_OneChatIdPerRequest ==
    \A i \in Events :
        /\ adapter_out[i].json.id = << "chatcmpl-", Choices(Seeded(request_timestamp), 29) >>
        /\ \A j \in Events :
               /\ adapter_out[j].json.id = adapter_out[i].json.id
               /\ adapter_out[j].json.created = adapter_out[i].json.created

\* the adapter has sent its request and seen the answer
Answered == apc \in { "lines", "after_lines", "last_yield", "returned" } \/ posts > 0

\* C26: an adapter sends one request upstream and no more; when the answer
\* is no 2xx it yields one item, the object {error, status_code, details} with
\* the upstream's status, and then returns: no text, tool or [DONE] event
C26_ErrorStatusOneEvent ==
    /\ posts <= 1
    /\ apc \in { "lines", "after_lines", "last_yield", "returned" } => posts = 1
    /\ (Answered /\ ~(200 <= response.status_code /\ response.status_code <= 299)) =>
           /\ Len(adapter_out) = 1
           /\ DOMAIN adapter_out[1] = { "error", "status_code", "details" }
           /\ adapter_out[1].status_code = response.status_code
           /\ apc \in { "last_yield", "returned" }
           /\ adapter_raised = None

\* the claude adapter has answered an upstream 429 that has a body
C26_Witness ==
    /\ apc = "returned"
    /\ response_gen = "fetch_claude_response_stream"
    /\ response.status_code = 429
    /\ response.lines # << >>
    /\ posts = 1
    /\ Len(adapter_out) = 1
    /\ adapter_out[1].status_code = 429

\* the adapter each streaming engine has of its own
OwnAdapter(e) ==
    CASE e \in { "gemini", "vertex-gemini" } -> "fetch_gemini_response_stream"
      [] e = "claude" -> "fetch_claude_response_stream"
      [] e = "vertex-claude" -> "fetch_vertex_claude_response_stream"
      [] e \in { "gpt", "openrouter" } -> "fetch_gpt_response_stream"
      [] e = "azure" -> "fetch_azure_response_stream"
      [] e = "cloudflare" -> "fetch_cloudflare_response_stream"
      [] e = "cohere" -> "fetch_cohere_response_stream"
      [] OTHER -> None

\* the engines other than vertex-claude are sent to their own adapter
C27_OtherEnginesOwnAdapter ==
    (called = "fetch_response_stream" /\ response_gen # None
        /\ request_engine # "vertex-claude") =>
        response_gen = OwnAdapter(request_engine)

\* an engine outside the streaming set fails before any request and any event
C27_UnknownEngineFails ==
    (called = "fetch_response_stream" /\ request_engine \notin Engines
        /\ apc # "call") =>
        /\ apc = "raised"
        /\ adapter_raised = "ValueError"
        /\ posts = 0
        /\ adapter_out = << >>

\* the lines of a Vertex Claude body that hold a text the adapter can parse
VertexText == { i \in DOMAIN response.lines : response.lines[i] = TextFragment }

\* C27: fetch_response_stream sends each engine to its own adapter: a
\* vertex-claude request is read by fetch_vertex_claude_response_stream, so each
\* text line of a 2xx body becomes an event; an engine outside the streaming
\* set raises before any request is sent and any event is emitted
C27_EachEngineOwnAdapter ==
    /\ C27_OtherEnginesOwnAdapter
    /\ C27_UnknownEngineFails
    /\ (called = "fetch_response_stream" /\ response_gen # None
          /\ request_engine = "vertex-claude") =>
          /\ response_gen = "fetch_vertex_claude_response_stream"
          /\ (apc = "returned" /\ IsSuccess(response.status_code)) =>
                Cardinality(Events) >= Cardinality(VertexText)

\* the lines of the body that end with "\n"
WholeLines ==
    IF response.terminated \/ response.lines = << >> THEN response.lines
    ELSE SubSeq(response.lines, 1, Len(response.lines) - 1)
\* what an adapter does on a sequence of lines, whatever chunks brought them
RECURSIVE RunLines(_, _, _, _, _)
RunLines(gen, ls, st, ts, rs) ==
    IF ls = << >> \/ st.ctl # "continue" THEN st
    ELSE LET s == LineStep(gen, Head(ls), st.loc, ts, rs, "urandom1")
         IN  RunLines(gen, Tail(ls), Step(st.out \o s.out, s.ctl, s.loc, << >>), ts, rs)
RunBody(ls) ==
    RunLines(response_gen, ls, Step(<< >>, "continue", AdapterLocals, << >>),
             request_timestamp, random_str)
\* what the adapter has yielded when it returns after the lines ls
RunToEnd(ls) ==
    LET r == RunBody(ls)
    IN  IF r.ctl \in { "continue", "break" }
        THEN r.out \o EndStep(response_gen, r.loc, request_timestamp).out
        ELSE r.out
\* the adapter reads the body
Reading == apc \in { "lines", "after_lines", "returned", "raised" } /\ posts = 1

\* C33: the lines an adapter processes and the events it yields depend on the
\* text of the body only, not on the chunks it comes in: the lines taken are
\* the first lines of the body, each once and whole, the events are those of
\* these lines, and what has not been taken is the rest of the text, the part
\* of a line in the buffer included
C33_ChunkBoundariesDoNotMatter ==
    Reading =>
        /\ line_no = Len(taken)
        /\ line_no <= Len(WholeLines)
        /\ taken = SubSeq(WholeLines, 1, line_no)
        /\ buffer \o unsent
             = SubSeq(BodyText(response), Len(Text(taken)) + 1, Len(BodyText(response)))
        /\ apc \in { "lines", "after_lines" } =>
               /\ adapter_out = RunBody(taken).out
               /\ adapter_locals = RunBody(taken).loc
        /\ apc = "returned" =>
               /\ adapter_out = RunToEnd(WholeLines)
               /\ RunBody(taken).ctl = "continue" => taken = WholeLines

\* an adapter has returned after a body of which a line came in two chunks, and
\* has yielded the event of that line
C33_Witness ==
    /\ apc = "returned"
    /\ joined
    /\ response.terminated
    /\ Len(response.lines) >= 2
    /\ taken = response.lines
    /\ \E i \in DOMAIN taken : taken[i].payload = "json"
    /\ adapter_out # << >>
    /\ adapter_out = RunToEnd(response.lines)

\* C37 as claimed: an adapter that reads the body to its end has processed
\* every line the upstream sent, the last line that has no "\n" after it
\* included, and has yielded the event of that line
C37_FinalLineProcessed ==
    (Reading /\ apc = "returned" /\ RunBody(WholeLines).ctl = "continue") =>
        /\ taken = response.lines
        /\ adapter_out = RunToEnd(response.lines)

\* the adapters leave the last line in the buffer when no "\n" follows it
C37_FinalLineLeftInBuffer ==
    (Reading /\ apc = "returned" /\ RunBody(WholeLines).ctl = "continue"
        /\ ~response.terminated) =>
        /\ taken = WholeLines
        /\ buffer = Chars(response.lines[Len(response.lines)])
        /\ adapter_out = RunToEnd(WholeLines)

\* ----------------------------------------------------- emitter: properties
\* the variants of the event, by the arguments of the call
TextDeltaCall(a) ==
    /\ Truthy(a.content) /\ a.role = None /\ a.tools_id = None
    /\ a.function_call_name = None /\ a.function_call_content = None
RoleAnnounceCall(a) ==
    /\ Truthy(a.role) /\ a.content = None /\ a.tools_id = None
    /\ a.function_call_name = None /\ a.function_call_content = None
ToolCallOpenCall(a) ==
    /\ Truthy(a.tools_id) /\ Truthy(a.function_call_name) /\ a.content = None
    /\ a.role = None /\ a.function_call_content = None
ToolCallArgumentsCall(a) ==
    /\ Truthy(a.function_call_content) /\ a.content = None /\ a.role = None
    /\ a.tools_id = None /\ a.function_call_name = None
\* the delta the specification gives each variant
ExpectedDelta(a) ==
    IF TextDeltaCall(a) THEN [content |-> a.content]
    ELSE IF RoleAnnounceCall(a) THEN [role |-> a.role, content |-> ""]
    ELSE IF ToolCallOpenCall(a)
    THEN [tool_calls |-> << [index |-> 0, id |-> a.tools_id, type |-> "function",
                             function |-> [name |-> a.function_call_name,
                                           arguments |-> ""]] >>]
    ELSE [tool_calls |-> << [index |-> 0,
                             function |-> [arguments |-> a.function_call_content]] >>]

\* C25 as claimed: a text-delta, role-announce, tool-call-open or
\* tool-call-arguments event has finish_reason null, usage null and the delta
\* of its variant; a usage event has no choices and a usage whose total is the
\* sum of its prompt and completion tokens
C25_EventShapes ==
    sse_response # << >> =>
        LET a == emit_args
            ev == sse_response[1].json
        IN  /\ ( /\ a.total_tokens = 0
                 /\ \/ TextDeltaCall(a) \/ RoleAnnounceCall(a)
                    \/ ToolCallOpenCall(a) \/ ToolCallArgumentsCall(a) ) =>
                    /\ Len(ev.choices) = 1
                    /\ ev.choices[1].finish_reason = None
                    /\ ev.usage = Null
                    /\ ev.choices[1].delta = ExpectedDelta(a)
            /\ a.total_tokens # 0 =>
                    /\ ev.choices = << >>
                    /\ ev.usage = [prompt_tokens |-> a.prompt_tokens,
                                   completion_tokens |-> a.completion_tokens,
                                   total_tokens |-> a.prompt_tokens + a.completion_tokens]

\* ================================================================ specifications
Next ==
    \/ \E t \in Tasks, m \in Models : CallNext(t, m)
    \/ NextEnter
    \/ NextLoop
    \/ NextExit
    \/ \E t \in Tasks, c \in 0..MaxItems, s \in CoolingTimes : CallSetCooling(t, c, s)
    \/ CoolWrite
    \/ CoolExit
    \/ \E t \in Tasks, c \in Creds, m \in Models : CallIsRateLimited(t, c, m)
    \/ IsRateLimitedBody
    \/ IsRateLimitedExit
    \/ \E t \in Tasks : CallAfterNextCurrent(t)
    \/ AfterNextCurrentRead
    \/ AfterNextCurrentExit
    \/ Tick

Init == PoolInit /\ MuxQuiet /\ WrapQuiet /\ EmitQuiet /\ AdaptQuiet

Spec == Init /\ [][Next]_vars

\* ------------------------------------------------------- pool, fair scheduling
\* the calls of next, set_cooling and after_next_current, run concurrently
NextFair ==
    \/ \E t \in Tasks, m \in Models : CallNext(t, m)
    \/ NextEnter
    \/ NextLoop
    \/ NextExit
    \/ \E t \in Tasks, c \in 0..MaxItems, s \in CoolingTimes : CallSetCooling(t, c, s)
    \/ CoolWrite
    \/ CoolExit
    \/ \E t \in Tasks : CallAfterNextCurrent(t)
    \/ AfterNextCurrentRead
    \/ AfterNextCurrentExit
    \/ Tick

\* the event loop runs a call to its end: none of its steps waits (the lock is
\* free when the call takes it, and is_rate_limited never suspends)
PoolFairness ==
    /\ WF_vars(NextEnter)
    /\ WF_vars(NextLoop)
    /\ WF_vars(NextExit)
    /\ WF_vars(CoolWrite)
    /\ WF_vars(CoolExit)
    /\ WF_vars(AfterNextCurrentRead)
    /\ WF_vars(AfterNextCurrentExit)

\* the pools of every size and algorithm, with the table of one request a minute
InitFair == Init /\ rate_limits = TableS4

SpecFair == InitFair /\ [][NextFair]_vars /\ PoolFairness

NextMux ==
    \/ MuxDispatch
    \/ MuxArm
    \/ AdapterYield
    \/ AdapterStop
    \/ SendHeartbeat
    \/ HeartbeatGet
    \/ MuxWake
    \/ MuxFor
    \/ MuxResume
    \/ ClientClose
    \/ ClientCancel
    \/ MuxExcept
    \/ MuxFinally
    \/ HeartbeatExit

InitMux == PoolQuiet /\ MuxInit /\ WrapQuiet /\ EmitQuiet /\ AdaptQuiet

SpecMux == InitMux /\ [][NextMux]_vars

\* the timed runs of one stream, for the engines gpt (no terminator of its
\* own) and claude (data: [DONE] when the body is over)
BeatEngines == { "gpt", "claude" }
InitBeat ==
    /\ PoolQuiet
    /\ WrapQuiet
    /\ EmitQuiet
    /\ AdaptQuiet
    /\ \E e \in BeatEngines, u \in Upstreams, s \in { 0, SilentFor } :
         MuxStart(e, [u EXCEPT !.silence = s])

NextBeat ==
    \/ MuxDispatch
    \/ MuxArm
    \/ AwakeAdapterYield
    \/ AwakeAdapterStop
    \/ DueSendHeartbeat
    \/ HeartbeatGet
    \/ MuxWake
    \/ MuxFor
    \/ MuxResume
    \/ ClientClose
    \/ ClientCancel
    \/ MuxExcept
    \/ MuxFinally
    \/ HeartbeatExit
    \/ SecondPasses

\* the event loop runs every callback that is ready, the consumer asks for the
\* next item, and time passes; the upstream and the client owe nothing
BeatFairness ==
    /\ WF_vars(MuxDispatch)
    /\ WF_vars(MuxArm)
    /\ WF_vars(DueSendHeartbeat)
    /\ WF_vars(HeartbeatGet)
    /\ WF_vars(MuxWake)
    /\ WF_vars(MuxFor)
    /\ WF_vars(MuxResume)
    /\ WF_vars(MuxExcept)
    /\ WF_vars(MuxFinally)
    /\ WF_vars(HeartbeatExit)
    /\ WF_vars(SecondPasses)

SpecBeat == InitBeat /\ [][NextBeat]_vars /\ BeatFairness

NextWrap ==
    \/ WrapSecondPasses
    \/ WrapFirst
    \/ WrapFirstEnd
    \/ YieldFirst
    \/ Pull
    \/ HeartbeatPathItem
    \/ RealPathItem
    \/ StreamEnd
    \/ WrapCancel
    \/ WrapClose

InitWrap == PoolQuiet /\ MuxQuiet /\ WrapInit /\ EmitQuiet /\ AdaptQuiet

SpecWrap == InitWrap /\ [][NextWrap]_vars

NextEmit ==
    \/ CallGenerateSseResponse
    \/ OtherRequestSeeds

InitEmit == PoolQuiet /\ MuxQuiet /\ WrapQuiet /\ EmitInit /\ AdaptQuiet

SpecEmit == InitEmit /\ [][NextEmit]_vars

NextAdapt ==
    \/ AdaptDispatch
    \/ FetchResponseCall
    \/ AdapterRequest
    \/ AdapterReturn
    \/ LineArrives
    \/ AdapterLine
    \/ AdapterEnd
    \/ OtherRequestSeeds

InitAdapt == PoolQuiet /\ MuxQuiet /\ WrapQuiet /\ AdaptInit

SpecAdapt == InitAdapt /\ [][NextAdapt]_vars


\* the adapters on bodies cut into chunks anywhere, with and without a "\n"
\* after the last line
ChunkEngines == { "gpt", "azure", "claude", "gemini", "cloudflare", "cohere" }
ChunkTime == "1700000001"
ChunkLinesOf(e) ==
    CASE e \in { "gpt", "azure" } -> { BlankLine, DoneLine, DataLine(ChunkObject(ChunkTime)) }
      [] e = "claude" -> { EventLine, DataLine(MessageStart), DataLine(TextDelta) }
      [] e = "gemini" -> { TextFragment, FinishFragment, BracketFragment }
      [] e = "cloudflare" -> { BlankLine, DoneLine, DataLine([response |-> "Hi"]) }
      [] OTHER -> { BlankLine, MalformedBare,
                    BareLine([CohereObject EXCEPT !.event_type = "text-generation",
                                                  !.text = "Hi"]) }
InitChunk ==
    /\ PoolQuiet
    /\ MuxQuiet
    /\ WrapQuiet
    /\ random_state = Seeded(None)
    /\ emit_args = NoArgs
    /\ sse_response = << >>
    /\ \E e \in ChunkEngines, n \in 0..MaxLines, terminated \in BOOLEAN :
         \E b \in [1..n -> ChunkLinesOf(e)] :
           /\ terminated \/ (n > 0 /\ b[n] # BlankLine)
           /\ AdaptStart("fetch_response_stream", e, ChunkTime,
                         [status_code |-> 200, lines |-> b, terminated |-> terminated])

NextChunk ==
    \/ AdaptDispatch
    \/ AdapterRequest
    \/ AnyChunkArrives
    \/ AdapterLine
    \/ AdapterEnd

SpecChunk == InitChunk /\ [][NextChunk]_vars


\* -------------------------------------------------- the pool of no credential
\* utils.py 69, 196: ThreadSafeCircularList(), the pool provider_api_circular_list
\* makes for a provider id it does not hold, and the pools made of an empty list
InitEmpty ==
    /\ MuxQuiet
    /\ WrapQuiet
    /\ EmitQuiet
    /\ AdaptQuiet
    /\ schedule_algorithm \in Algorithms
    /\ items = << >>
    /\ \/ rate_limits = TableDefault /\ callers = Models
       \/ \E sc \in Scenarios : rate_limits = sc.table /\ callers = sc.callers
    /\ index = 0
    /\ lock = NoTask
    /\ requests = EmptyLog
    /\ cooling_until = [c \in Creds |-> 0]
    /\ now = 0
    /\ calls = 0
    /\ running = NoTask
    /\ pc = "idle"
    /\ model = NoModel
    /\ item = NoCred
    /\ cooling_time = 0
    /\ set_now = 0
    /\ start_index = 0
    /\ result = NoResult
    /\ pre_requests = EmptyLog
    /\ clean = FALSE
    /\ streak = << >>
    /\ cool_deadline = [c \in Creds |-> 0]
    /\ last_next = [t \in Tasks |-> NoCred]

NextEmpty ==
    \/ \E t \in Tasks, m \in Models : CallNext(t, m)
    \/ NextEnter
    \/ NextLoop
    \/ NextExit
    \/ \E t \in Tasks, s \in CoolingTimes : CallSetCooling(t, NoCred, s)
    \/ CoolExit
    \/ \E t \in Tasks : CallAfterNextCurrent(t)
    \/ AfterNextCurrentExit
    \/ Tick

SpecEmpty == InitEmpty /\ [][NextEmpty]_vars

====
